---------------------------- MODULE Spec2Model ----------------------------
(***************************************************************************)
(* Model of the scene-synchronized video compilation engine of             *)
(* src/app.py: the storyboard parser (StoryboardGenerationAgent            *)
(* .parse_scenes with validate_and_fix_scene and enhance_scene_keywords)   *)
(* and the compilation run (compile_youtube_short with generate_voiceover, *)
(* generate_subtitles, the duration reconciliation and the per-scene media *)
(* resolver), and the subtitle writer (gentle_alignment_to_srt with        *)
(* format_time).                                                           *)
(*                                                                         *)
(* Text is modelled as a sequence of tokens.  A token is one character     *)
(* where the parser looks at characters (digits, ".", ":", " ", quotes)    *)
(* and one word elsewhere.  A line is a token sequence, a storyboard text  *)
(* is a sequence of lines (the result of response.split('\n')).            *)
(*                                                                         *)
(* Durations are integers counted in ticks of 0.1 s; a scaled duration is  *)
(* the exact fraction [num, den].  The times of aligned words are integers *)
(* counted in milliseconds.                                                *)
(***************************************************************************)
EXTENDS Integers, Sequences, FiniteSets, TLC

VARIABLES
    \* ---- parse_scenes ----
    response,              \* the lines of the storyboard text
    pos,                   \* index of the line the for-loop handles next
    scenes,                \* the list parse_scenes returns
    current_scene,         \* dict of the scene being collected (key -> value)
    current_scene_number,  \* None or the number of the last scene line
    ppc,                   \* "idle" | "loop" | "done"
    \* ---- compile_youtube_short ----
    scene_duration,        \* per scene: the scene's 'duration'
    narration_text,        \* per scene: the scene's 'narration_text'
    audio_duration,        \* per scene: 'audio_duration', Absent when not set
    adjusted_duration,     \* per scene: 'adjusted_duration', a fraction
    cpc,                   \* the stage the run is in
    vi,                    \* generate_voiceover: index of the next scene
    ri,                    \* scene loop of the resolver: index of the next scene
    cur,                   \* the scene the loop of the resolver is at
    scene_files,           \* the clip list
    temp_dir,              \* "none" | "exists" | "removed" | "removal_failed"
    result,                \* "pending" | "output_path" | "None"
    error,                 \* the failure the run logged, "" when none
    voice_dir,             \* temp_dir of generate_voiceover, as temp_dir
    subtitles_dir,         \* temp_dir of generate_subtitles
    transcript,            \* the text written to input_text.txt
    align_log,             \* the outcome of each call of align_with_gentle
    concat_file,           \* concat.txt: written or not, and its clips
    encoder,               \* "not_run" | "success" | "failure"
    output_exists,         \* whether output_path names a file
    tts_log,               \* the text of each call of tts
    \* ---- gentle_alignment_to_srt ----
    gentle_alignment,      \* the list gentle_alignment['words']
    srt_file,              \* the cues written to the subtitle file
    spc,                   \* "idle" | "call" | "done"
    \* ---- youtube_shorts_workflow ----
    session_id,            \* whether SESSION_ID is set
    video_length,          \* the argument video_length, in seconds
    wpc,                   \* the statement the workflow is at
    step,                  \* the number of the agent step that runs next
    results,               \* the local 'results': Unbound or a dict
    storyboard,            \* storyboard_gen_result: the scene dicts
    image_gen_result,      \* per scene: whether an image path came back
    total_duration,        \* the sum of the scene durations, in seconds
    exception,             \* the exception that left the workflow, "" if none
    wvi,                   \* generate_voiceover of the workflow: the next scene
    wstage,                \* the call compile_youtube_short is in, "none" outside
    \* ---- VideoProcessor.calculate_relevance ----
    video_asset,           \* the dict 'video' of the asset
    description,           \* the tokens of the description
    timestamp,             \* the timestamp, in seconds
    relevance,             \* the value returned, a fraction
    rpc,                   \* "idle" | "call" | "done" | the exception raised
    \* ---- two runs of compile_youtube_short ----
    run_scenes,            \* per run: len(scenes) of the call
    run_pc,                \* per run: the statement the run is at
    run_dir,               \* per run: the directory mkdtemp returned
    run_result,            \* per run: the value returned
    directories,           \* the temporary directories that exist
    made,                  \* the number of directories mkdtemp has made
    output_file            \* the run that wrote youtube_short.mp4, 0 if none

pvars == <<response, pos, scenes, current_scene, current_scene_number, ppc>>
cvars == <<scene_duration, narration_text, audio_duration, adjusted_duration, cpc, vi, ri, cur,
           scene_files, temp_dir, result, error, voice_dir, subtitles_dir,
           transcript, align_log, concat_file, encoder, output_exists,
           tts_log>>
svars == <<gentle_alignment, srt_file, spc>>
wvars == <<session_id, video_length, wpc, step, results, storyboard, image_gen_result,
           total_duration, exception, wvi, wstage>>
rvars == <<video_asset, description, timestamp, relevance, rpc>>
kvars == <<run_scenes, run_pc, run_dir, run_result, directories, made, output_file>>
vars == <<response, pos, scenes, current_scene, current_scene_number, ppc,
          scene_duration,
          narration_text, audio_duration, adjusted_duration, cpc, vi, ri, cur,
          scene_files, temp_dir, result, error, voice_dir, subtitles_dir,
          transcript, align_log, concat_file, encoder, output_exists,
          tts_log, gentle_alignment, srt_file, spc,
          session_id, video_length, wpc, step, results, storyboard, image_gen_result,
          total_duration, exception, wvi, wstage,
          video_asset, description, timestamp, relevance, rpc,
          run_scenes, run_pc, run_dir, run_result, directories, made,
          output_file>>

---------------------------------------------------------------------------
(* Bounds of the model *)

\* a storyboard text is the concatenation of at most MaxBlocks blocks
MaxBlocks == 3

\* a compilation run has at most MaxScenes scenes
MaxScenes == 2

\* a measured audio duration is a whole number of seconds, at most
\* MaxAudioSeconds
MaxAudioSeconds == 2

---------------------------------------------------------------------------
(* Strings *)

\* Python's None as a scene number
None == 0 - 1

\* int() raising ValueError
ValueError == 0 - 2

\* range(1, 51): the scene numbers the parser recognises
MAX_SCENE_NUMBER == 50

DigitTokens == {ToString(d) : d \in 0..9}

DigitValue(t) == CHOOSE d \in 0..9 : ToString(d) = t

\* str(i) for 0 <= i <= 99
Str(i) == IF i = None THEN <<"None">>
          ELSE IF i < 10 THEN <<ToString(i)>>
          ELSE <<ToString(i \div 10), ToString(i % 10)>>

\* str.startswith(prefix)
StartsWith(s, prefix) ==
    /\ Len(s) >= Len(prefix)
    /\ SubSeq(s, 1, Len(prefix)) = prefix

\* tok in s
Contains(s, tok) == \E i \in 1..Len(s) : s[i] = tok

RECURSIVE LStripChar(_, _)
LStripChar(s, ch) ==
    IF s # <<>> /\ Head(s) = ch THEN LStripChar(Tail(s), ch) ELSE s

RECURSIVE RStripChar(_, _)
RStripChar(s, ch) ==
    IF s # <<>> /\ s[Len(s)] = ch
    THEN RStripChar(SubSeq(s, 1, Len(s) - 1), ch)
    ELSE s

\* str.strip(ch)
StripChar(s, ch) == RStripChar(LStripChar(s, ch), ch)

\* the tokens str.strip(), str.split() and \s take for whitespace
Whitespace == {" ", "\n", "\t"}

RECURSIVE LStrip(_)
LStrip(s) ==
    IF s # <<>> /\ Head(s) \in Whitespace THEN LStrip(Tail(s)) ELSE s

RECURSIVE RStrip(_)
RStrip(s) ==
    IF s # <<>> /\ s[Len(s)] \in Whitespace
    THEN RStrip(SubSeq(s, 1, Len(s) - 1))
    ELSE s

\* str.strip()
Strip(s) == RStrip(LStrip(s))

\* index of the first occurrence of tok in s (s contains tok)
IndexOf(s, tok) == CHOOSE i \in 1..Len(s) :
                        s[i] = tok /\ \A j \in 1..(i - 1) : s[j] # tok

\* s.split(tok, 1): <<s>> when tok is absent, else <<before, after>>
Split1(s, tok) ==
    IF Contains(s, tok)
    THEN <<SubSeq(s, 1, IndexOf(s, tok) - 1),
           SubSeq(s, IndexOf(s, tok) + 1, Len(s))>>
    ELSE <<s>>

LowerToken(t) ==
    CASE t = "Visual" -> "visual"
      [] t = "Text" -> "text"
      [] t = "Video" -> "video"
      [] t = "Image" -> "image"
      [] t = "Keyword" -> "keyword"
      [] t = "Storyboard" -> "storyboard"
      [] t = "None" -> "none"
      [] t = "NONE" -> "none"
      [] t = "Cats" -> "cats"
      [] t = "The" -> "the"
      [] t = "Running" -> "running"
      [] OTHER -> t

\* str.lower()
Lower(s) == [i \in 1..Len(s) |-> LowerToken(s[i])]

RECURSIVE DigitsValue(_, _)
DigitsValue(s, acc) ==
    IF s = <<>> THEN acc
    ELSE DigitsValue(Tail(s), acc * 10 + DigitValue(Head(s)))

\* int(s): the value of a digit string, ValueError for anything else
IntOf(s) ==
    LET t == Strip(s) IN
    IF t # <<>> /\ \A i \in 1..Len(t) : t[i] \in DigitTokens
    THEN DigitsValue(t, 0)
    ELSE ValueError


---------------------------------------------------------------------------
(* Dictionaries: a scene dict is a function from keys to values; both are   *)
(* token sequences.  The entry 'number' is kept as the field number of the  *)
(* scene record.                                                            *)

EmptyDict == [k \in {} |-> <<>>]

\* d[key] = value
DictSet(d, key, value) ==
    [k \in (DOMAIN d) \cup {key} |-> IF k = key THEN value ELSE d[k]]

\* d.get(key, default)
DictGet(d, key, default) == IF key \in DOMAIN d THEN d[key] ELSE default

K_visual == <<"visual">>
K_text == <<"text">>
K_video_keyword == <<"video_keyword">>
K_image_keyword == <<"image_keyword">>
K_narration_text == <<"narration_text">>
K_number == <<"number">>

required_keys == <<K_visual, K_text, K_video_keyword, K_image_keyword>>

---------------------------------------------------------------------------
(* validate_and_fix_scene *)

\* the placeholder of a missing required key
Placeholder(key, scene_number) ==
    CASE key = K_visual ->
            <<"Visual", " ", "representation", " ", "of", " ", "scene", " ">>
                \o Str(scene_number)
      [] key = K_text -> <<>>
      [] key = K_video_keyword ->
            <<"video", " ", "scene", " ">> \o Str(scene_number)
      [] key = K_image_keyword ->
            <<"image", " ", "scene", " ">> \o Str(scene_number)

RECURSIVE FillMissing(_, _, _)
FillMissing(d, i, scene_number) ==
    IF i > Len(required_keys) THEN d
    ELSE LET key == required_keys[i] IN
         FillMissing(IF key \in DOMAIN d THEN d
                     ELSE DictSet(d, key, Placeholder(key, scene_number)),
                     i + 1, scene_number)

\* text.strip('"').strip("'")
CleanQuotes(text) == StripChar(StripChar(text, "\""), "'")

\* the function without the loop that adds the missing keys
validate_without_fill(d, scene_number) ==
    LET text == CleanQuotes(DictGet(d, K_text, <<>>))
    IN DictSet(DictSet(d, K_text, text), K_narration_text, text)

\* validate_and_fix_scene(scene, scene_number): the fields of the fixed scene
validate_and_fix_scene(d, scene_number) ==
    LET filled == FillMissing(d, 1, scene_number)
        text == CleanQuotes(DictGet(filled, K_text, <<>>))
    IN DictSet(DictSet(filled, K_text, text), K_narration_text, text)

---------------------------------------------------------------------------
(* enhance_scene_keywords.  The NLP pipeline is an external collaborator:   *)
(* it is modelled by the set of tokens it tags NOUN or PROPN and the set   *)
(* of tokens it marks as a named entity (ent_type_ not empty).  The lemma  *)
(* of each of these tokens is the token itself.                            *)

NounTokens == {"sunrise", "city", "morning", "representation", "scene",
               "storyboard"}

\* the tokens with an entity type: a time of day and the number 1
EntityTokens == {"dawn", "1"}

\* the token at position j is a whole word of the text: a digit that is
\* part of a longer number is not a token of the pipeline
WholeToken(text, j) ==
    text[j] \in DigitTokens =>
        /\ (j > 1 => text[j - 1] \notin DigitTokens)
        /\ (j < Len(text) => text[j + 1] \notin DigitTokens)

\* extract_keywords(doc): token.lemma_ of the tokens that are nouns or
\* carry an entity type
extract_keywords(text) ==
    {text[i] : i \in {j \in 1..Len(text) :
                         \/ text[j] \in NounTokens
                         \/ text[j] \in EntityTokens /\ WholeToken(text, j)}}

Min(a, b) == IF a <= b THEN a ELSE b

\* list(set(...))[:5]: a set has no defined order, so every order of the
\* keywords is a possible list; the first five are used
KeywordLists(S) ==
    LET n == Cardinality(S)
        orders == {f \in [1..n -> S] : \A i, j \in 1..n : i # j => f[i] # f[j]}
    IN {SubSeq(o, 1, Min(5, n)) : o \in orders}

RECURSIVE Join(_)
\* ' '.join(list)
Join(l) ==
    IF l = <<>> THEN <<>>
    ELSE IF Len(l) = 1 THEN <<l[1]>>
    ELSE <<l[1], " ">> \o Join(Tail(l))

\* the keyword strings enhance_scene_keywords can produce for a scene
EnhancedKeywords(d) ==
    {Join(l) : l \in KeywordLists(
        extract_keywords(DictGet(d, K_narration_text, <<>>))
            \cup extract_keywords(DictGet(d, K_visual, <<>>)))}

\* enhance_scene_keywords(scene) with the keyword string kw
enhance_scene_keywords(d, kw) ==
    DictSet(DictSet(d, K_video_keyword, kw), K_image_keyword, kw)

---------------------------------------------------------------------------
(* parse_scenes *)

\* tuple(f"{i}." for i in range(1, 51))
ScenePrefixes == {Str(i) \o <<".">> : i \in 1..MAX_SCENE_NUMBER}

\* line.startswith(tuple(...))
IsSceneLine(line) == \E p \in ScenePrefixes : StartsWith(line, p)

\* the scene record appended to scenes: the dict without its 'number' entry
\* and the number that entry holds
SceneRecord(d, scene_number) ==
    [number |-> scene_number,
     fields |-> [k \in (DOMAIN d) \ {K_number} |-> d[k]]]

\* the lists that scenes can be after the current scene is flushed:
\* nothing is appended when the dict is empty (if current_scene:)
Flushed(list, d, scene_number) ==
    IF DOMAIN d = {} THEN {list}
    ELSE {Append(list,
                 SceneRecord(enhance_scene_keywords(
                                 validate_and_fix_scene(d, scene_number), kw),
                             scene_number))
            : kw \in EnhancedKeywords(validate_and_fix_scene(d, scene_number))}

CurLine == Strip(response[pos])

\* a line that starts with "<i>.", 1 <= i <= 50: flush the current scene and
\* start a new one
ParseSceneLine ==
    /\ ppc = "loop"
    /\ pos <= Len(response)
    /\ IsSceneLine(CurLine)
    /\ scenes' \in Flushed(scenes, current_scene, current_scene_number)
    /\ LET n == IntOf(Split1(CurLine, ".")[1]) IN
         \* except ValueError: continue (the number is left as it was)
         current_scene_number' = IF n = ValueError THEN current_scene_number
                                 ELSE n
    /\ current_scene' = IF DOMAIN current_scene = {} THEN current_scene
                        ELSE EmptyDict
    /\ pos' = pos + 1
    /\ UNCHANGED <<response, ppc>>
    /\ UNCHANGED <<cvars, svars, wvars, rvars, kvars>>

\* any other line with a ':': key, value = line.split(':', 1)
ParseKeyValueLine ==
    /\ ppc = "loop"
    /\ pos <= Len(response)
    /\ ~IsSceneLine(CurLine)
    /\ Contains(CurLine, ":")
    /\ LET kv == Split1(CurLine, ":") IN
         current_scene' = DictSet(current_scene, Lower(Strip(kv[1])),
                                  Strip(kv[2]))
    /\ pos' = pos + 1
    /\ UNCHANGED <<response, scenes, current_scene_number, ppc>>
    /\ UNCHANGED <<cvars, svars, wvars, rvars, kvars>>

\* a line of neither form is logged and dropped
ParseOtherLine ==
    /\ ppc = "loop"
    /\ pos <= Len(response)
    /\ ~IsSceneLine(CurLine)
    /\ ~Contains(CurLine, ":")
    /\ pos' = pos + 1
    /\ UNCHANGED <<response, scenes, current_scene, current_scene_number, ppc>>
    /\ UNCHANGED <<cvars, svars, wvars, rvars, kvars>>

\* after the loop: flush the unfinished scene and return scenes
ParseReturn ==
    /\ ppc = "loop"
    /\ pos > Len(response)
    /\ scenes' \in Flushed(scenes, current_scene, current_scene_number)
    /\ ppc' = "done"
    /\ UNCHANGED <<response, pos, current_scene, current_scene_number>>
    /\ UNCHANGED <<cvars, svars, wvars, rvars, kvars>>


---------------------------------------------------------------------------
(* The storyboard texts the parser is run on *)

L_1_Visual == <<"1", ".", " ", "Visual", ":", " ", "a", " ", "sunrise">>
L_Text == <<" ", " ", "Text", ":", " ", "\"", "hi", " ", "there", "\"">>
L_VideoKeyword == <<" ", " ", "Video", " ", "Keyword", ":", " ", "sunrise">>
L_ImageKeyword == <<" ", " ", "Image", " ", "Keyword", ":", " ", "dawn">>
L_2 == <<"2", ".">>
L_Visual == <<"Visual", ":", " ", "a", " ", "city">>
L_Text2 == <<"Text", ":", " ", "'", "bye", "'">>
L_3 == <<"3", ".">>
L_50 == <<"5", "0", ".">>
L_1 == <<"1", ".">>
L_51_Visual == <<"5", "1", ".", " ", "Visual", ":", " ", "x">>
L_Prose == <<"Here", " ", "is", " ", "the", " ", "storyboard">>
L_Blank == <<>>

\* a scene in the format of the prompt's example: the first field shares the
\* line with the scene number
B_Scene1 == <<L_1_Visual, L_Text, L_VideoKeyword, L_ImageKeyword>>
\* a scene with the number on a line of its own
B_Scene2 == <<L_2, L_Visual, L_Text2, L_VideoKeyword, L_ImageKeyword>>
\* a scene number followed by no field
B_Bare3 == <<L_3>>
\* a scene with only some of the fields
B_Partial50 == <<L_50, L_Text2>>
\* scene number 1 again
B_Again1 == <<L_1, L_Visual>>
\* a scene number above 50
B_Scene51 == <<L_51_Visual>>
\* a key/value line on its own
B_KeyValue == <<L_Text2>>
\* prose and a blank line
B_Prose == <<L_Prose, L_Blank>>

Blocks == {B_Scene1, B_Scene2, B_Bare3, B_Partial50, B_Again1, B_Scene51,
           B_KeyValue, B_Prose}

RECURSIVE Concat(_)
Concat(bs) == IF bs = <<>> THEN <<>> ELSE Head(bs) \o Concat(Tail(bs))

\* ''.split('\n') is [''], never []
SplitLines(bs) == IF Concat(bs) = <<>> THEN <<L_Blank>> ELSE Concat(bs)

Responses ==
    {SplitLines(bs) : bs \in UNION {[1..n -> Blocks] : n \in 0..MaxBlocks}}

\* no compilation run
CompileIdle ==
    /\ scene_duration = <<>>
    /\ narration_text = <<>>
    /\ audio_duration = <<>>
    /\ adjusted_duration = <<>>
    /\ cpc = "idle"
    /\ vi = 0
    /\ ri = 0
    /\ cur = [scene |-> 0]
    /\ scene_files = <<>>
    /\ temp_dir = "none"
    /\ result = "pending"
    /\ error = ""
    /\ voice_dir = "none"
    /\ subtitles_dir = "none"
    /\ transcript = <<>>
    /\ align_log = <<>>
    /\ concat_file = [written |-> FALSE, files |-> <<>>]
    /\ encoder = "not_run"
    /\ output_exists = FALSE
    /\ tts_log = <<>>

SrtIdle ==
    /\ gentle_alignment = <<>>
    /\ srt_file = <<>>
    /\ spc = "idle"

\* no run of the workflow
WorkflowIdle ==
    /\ session_id = FALSE
    /\ video_length = 0
    /\ wpc = "idle"
    /\ step = 0
    /\ results = "Unbound"
    /\ storyboard = <<>>
    /\ image_gen_result = <<>>
    /\ total_duration = 0
    /\ exception = ""
    /\ wvi = 1
    /\ wstage = "none"

\* no call of calculate_relevance
RelevanceIdle ==
    /\ video_asset = [tags |-> <<>>, title |-> <<>>, subtitles |-> <<>>,
                      audio_transcript |-> <<>>]
    /\ description = <<>>
    /\ timestamp = 0
    /\ relevance = [num |-> 0, den |-> 1]
    /\ rpc = "idle"

\* no concurrent runs
ConcurrentIdle ==
    /\ run_scenes = <<>>
    /\ run_pc = <<>>
    /\ run_dir = <<>>
    /\ run_result = <<>>
    /\ directories = {}
    /\ made = 0
    /\ output_file = 0

ParseInit ==
    /\ response \in Responses
    /\ pos = 1
    /\ scenes = <<>>
    /\ current_scene = EmptyDict
    /\ current_scene_number = None
    /\ ppc = "loop"
    /\ CompileIdle
    /\ SrtIdle
    /\ WorkflowIdle
    /\ RelevanceIdle
    /\ ConcurrentIdle

ParseNext ==
    \/ ParseSceneLine
    \/ ParseKeyValueLine
    \/ ParseOtherLine
    \/ ParseReturn

SpecParse == ParseInit /\ [][ParseNext]_vars


---------------------------------------------------------------------------
(* Properties of parse_scenes.  What a storyboard text says is read off the *)
(* text itself, not off the parser's tables.                                *)

RECURSIVE LeadingDigits(_)
\* the digits a text begins with
LeadingDigits(s) ==
    IF s # <<>> /\ Head(s) \in DigitTokens
    THEN <<Head(s)>> \o LeadingDigits(Tail(s))
    ELSE <<>>

\* the n of a line that begins with "<n>.", n a positive integer; 0 for any
\* other line
LabelNumber(line) ==
    LET t == Strip(line)
        ds == LeadingDigits(t)
    IN IF ds # <<>> /\ Len(t) > Len(ds) /\ t[Len(ds) + 1] = "."
       THEN DigitsValue(ds, 0) ELSE 0

\* the indices of the lines that begin with a scene number
NumberedLines(resp) == {i \in 1..Len(resp) : LabelNumber(resp[i]) >= 1}

\* the scene numbers of the text, in input order
RECURSIVE NumbersFrom(_, _)
NumbersFrom(resp, i) ==
    IF i > Len(resp) THEN <<>>
    ELSE IF LabelNumber(resp[i]) >= 1
         THEN <<LabelNumber(resp[i])>> \o NumbersFrom(resp, i + 1)
         ELSE NumbersFrom(resp, i + 1)

\* the text after "<n>." on a numbered line
AfterNumber(line) == Split1(Strip(line), ".")[2]

\* s is a line "<label>: ..." (case-insensitive)
HasLabel(s, label) ==
    Contains(s, ":") /\ Lower(Strip(Split1(s, ":")[1])) = label

Labels == {<<"visual">>, <<"text">>, <<"video", " ", "keyword">>,
           <<"image", " ", "keyword">>}

\* the lines of the scene that starts at numbered line i: the rest of line i
\* and the lines up to the next numbered line
SceneLines(resp, i) ==
    {AfterNumber(resp[i])} \cup
    {resp[j] : j \in {k \in (i + 1)..Len(resp) :
                        \A m \in (i + 1)..k : LabelNumber(resp[m]) = 0}}

\* a well-formed storyboard: a numbered list of scenes, numbered within the
\* range the parser is written for, every scene with its four labelled
\* lines, and no labelled line outside a scene
WellFormed(resp) ==
    /\ \A i \in NumberedLines(resp) :
          /\ LabelNumber(resp[i]) <= MAX_SCENE_NUMBER
          /\ \A label \in Labels :
                \E s \in SceneLines(resp, i) : HasLabel(s, label)
    /\ \A j \in 1..Len(resp) :
          Contains(resp[j], ":") => \E i \in NumberedLines(resp) : i <= j

\* C1: for a well-formed storyboard text with N numbered scenes, each with
\* its Visual, Text, Video Keyword and Image Keyword lines, parse_scenes
\* returns exactly N scene records, in input order, each with the four keys
\* visual, text, video_keyword and image_keyword.
C1_WellFormedYieldsNScenes ==
    (ppc = "done" /\ WellFormed(response)) =>
        /\ Len(scenes) = Cardinality(NumberedLines(response))
        /\ [k \in 1..Len(scenes) |-> scenes[k].number]
              = NumbersFrom(response, 1)
        /\ \A k \in 1..Len(scenes) :
              {K_visual, K_text, K_video_keyword, K_image_keyword}
                  \subseteq DOMAIN scenes[k].fields

\* C1 witness: a well-formed text of two scenes, one of them in the prompt's
\* format, has been parsed to two records.
C1_Witness ==
    /\ ppc = "done"
    /\ WellFormed(response)
    /\ NumbersFrom(response, 1) = <<1, 2>>
    /\ Len(scenes) = 2
    /\ scenes[2].fields[K_visual] = <<"a", " ", "city">>

\* C2 (as claimed): for a text with no line that begins with a scene number,
\* parse_scenes returns the empty list.
C2_NoNumberedLineYieldsEmpty ==
    (ppc = "done" /\ NumberedLines(response) = {}) => scenes = <<>>

\* C3 (as claimed): no scene is dropped for missing fields: every line that
\* begins with a scene number (here: one within the parser's range) yields
\* a scene record.
C3_NoSceneDropped ==
    ppc = "done" =>
        Len(scenes) >= Cardinality({i \in NumberedLines(response) :
                            LabelNumber(response[i]) <= MAX_SCENE_NUMBER})

\* C4 (as claimed): no two records of the returned storyboard have the same
\* scene number.
C4_NoDuplicateNumbers ==
    ppc = "done" =>
        \A i, j \in 1..Len(scenes) :
            i # j => scenes[i].number # scenes[j].number

\* a dict key that begins with "<n>."
NumberedKey(key) == LabelNumber(key) >= 1

\* C5 (as claimed): a line beginning with "<n>." starts a new scene for every
\* positive integer n, and is never merged as a key/value line into the
\* scene before it.
C5_EveryNumberStartsAScene ==
    /\ (ppc = "loop" /\ pos > 1 /\ LabelNumber(response[pos - 1]) >= 1) =>
          /\ current_scene_number = LabelNumber(response[pos - 1])
          /\ DOMAIN current_scene = {}
    /\ \A key \in DOMAIN current_scene : ~NumberedKey(key)
    /\ \A k \in 1..Len(scenes) :
          \A key \in DOMAIN scenes[k].fields : ~NumberedKey(key)


---------------------------------------------------------------------------
(* compile_youtube_short: one compilation run.  Durations are counted in   *)
(* ticks of 0.1 s, the tolerance of the reconciliation.                     *)

TICKS_PER_SECOND == 10

\* DEFAULT_SCENE_DURATION = 1 (seconds)
DEFAULT_SCENE_DURATION == 1

\* the 0.1 s of abs(total_video_duration - total_audio_duration) > 0.1
TOLERANCE == 1

\* a key that is not in the scene dict
Absent == 0 - 1

\* scene.get(key, default) on a numeric entry
Get(value, default) == IF value = Absent THEN default ELSE value

\* the durations AudioSegment.duration_seconds reports, in ticks: an empty
\* segment, one second, and the longest segment of MaxAudioSeconds
Durations == {0, TICKS_PER_SECOND, MaxAudioSeconds * TICKS_PER_SECOND}

\* the 'duration' the scenes of a run are given, in ticks: 1.0 s.
\* compile_youtube_short reads 'audio_duration' and 'adjusted_duration' of
\* a scene and not its 'duration'
GivenDuration == TICKS_PER_SECOND

\* the narration texts of the scenes of a run
Narrations == {<<"hi", " ", "there">>, <<>>, <<"None">>,
               <<"None", ",", " ", "no", " ", "voiceover", ",", " ", "no",
                 " ", "subtitles", ",", " ", "just", " ", "music">>,
               <<"*", "*">>}

\* a duration num / den seconds (in ticks); den = 0 when not yet set
Frac(n, d) == [num |-> n, den |-> d]

Unset == Frac(0, 0)

RECURSIVE Sum(_)
Sum(s) == IF s = <<>> THEN 0 ELSE Head(s) + Sum(Tail(s))

Abs(x) == IF x < 0 THEN 0 - x ELSE x

NScenes == Len(narration_text)

NoCur == [scene |-> 0, image |-> "absent", video |-> "absent",
          branch |-> "none", ok |-> FALSE]

ParseIdle ==
    /\ response = <<>>
    /\ pos = 0
    /\ scenes = <<>>
    /\ current_scene = EmptyDict
    /\ current_scene_number = None
    /\ ppc = "idle"

\* the stages of a run in the order of the statements of the try block; the
\* manifest is written when the scene loop has ended
AfterStage_skipping_subtitles(stage) ==
    CASE stage = "start" -> "voice"
      [] stage = "voice" -> "reconcile"
      [] stage = "subtitles" -> "reconcile"
      [] stage = "reconcile" -> "resolve"
      [] stage = "resolve" -> "encode"
      [] stage = "encode" -> "cleanup"
      [] stage = "cleanup" -> "done"

\* the stage that follows a stage that did not raise
AfterStage(stage) ==
    CASE stage = "start" -> "voice"
      [] stage = "voice" -> "subtitles"
      [] stage = "subtitles" -> "reconcile"
      [] stage = "reconcile" -> "resolve"
      [] stage = "resolve" -> "encode"
      [] stage = "encode" -> "cleanup"
      [] stage = "cleanup" -> "done"

\* concat.txt before it is written
NoManifest == [written |-> FALSE, files |-> <<>>]

CompileInit ==
    /\ ParseIdle
    /\ SrtIdle
    /\ WorkflowIdle
    /\ RelevanceIdle
    /\ ConcurrentIdle
    /\ \E n \in 0..MaxScenes :
          /\ scene_duration = [i \in 1..n |-> GivenDuration]
          /\ narration_text \in [1..n -> Narrations]
          /\ audio_duration = [i \in 1..n |-> Absent]
          /\ adjusted_duration = [i \in 1..n |-> Unset]
    /\ cpc = "start"
    /\ vi = 1
    /\ ri = 1
    /\ cur = NoCur
    /\ scene_files = <<>>
    /\ temp_dir = "none"
    /\ result = "pending"
    /\ error = ""
    /\ voice_dir = "none"
    /\ subtitles_dir = "none"
    /\ transcript = <<>>
    /\ align_log = <<>>
    /\ concat_file = NoManifest
    /\ encoder = "not_run"
    /\ output_exists = FALSE
    /\ tts_log = <<>>

\* if not scenes: return None
CompileNoScenes ==
    /\ cpc = "start"
    /\ NScenes = 0
    /\ result' = "None"
    /\ error' = "No scenes were generated"
    /\ cpc' = "done"
    /\ UNCHANGED scene_duration
    /\ UNCHANGED <<narration_text, audio_duration, adjusted_duration, vi, ri,
                   cur, scene_files, temp_dir>>
    /\ UNCHANGED <<voice_dir, subtitles_dir, transcript, align_log,
                   concat_file, encoder, output_exists>>
    /\ UNCHANGED tts_log
    /\ UNCHANGED <<pvars, svars, wvars, rvars, kvars>>

\* temp_dir = tempfile.mkdtemp(); the try block is entered
CompileStart ==
    /\ cpc = "start"
    /\ NScenes > 0
    /\ temp_dir' = "exists"
    /\ cpc' = AfterStage(cpc)
    /\ UNCHANGED scene_duration
    /\ UNCHANGED <<narration_text, audio_duration, adjusted_duration, vi, ri,
                   cur, scene_files, result, error>>
    /\ UNCHANGED <<voice_dir, subtitles_dir, transcript, align_log,
                   concat_file, encoder, output_exists>>
    /\ UNCHANGED tts_log
    /\ UNCHANGED <<pvars, svars, wvars, rvars, kvars>>

\* an exception handler that returns without the finally block
Abort_without_finally(message) ==
    /\ error' = message
    /\ result' = "None"
    /\ cpc' = "done"

\* a stage raised: except Exception: the error is logged, return None, then
\* the finally block
Abort(message) ==
    /\ error' = message
    /\ result' = "None"
    /\ cpc' = "cleanup"

---------------------------------------------------------------------------
(* generate_voiceover *)

\* a test that passes over the empty text only
IsSilent_only_empty(text) == Strip(text) = <<>>

\* not text or text.lower() == 'none', text the stripped narration_text
IsSilent(text) == Strip(text) = <<>> \/ Lower(Strip(text)) = <<"none">>

\* the tokens that are neither word characters nor whitespace nor one of
\* . , ! ? ' "
Symbols == {"*", ":", "-", "#"}

\* the punctuation marks of which a run is collapsed
Marks == {".", "!", "?"}

\* text.replace('*', '')
RemoveAsterisks(text) == SelectSeq(text, LAMBDA t : t # "*")

\* re.sub(r'[^\w\s.,!?\'"]', '', text)
RemoveSymbols(text) == SelectSeq(text, LAMBDA t : t \notin Symbols)

\* re.sub(r'([.!?])\1+', r'\1', text)
RECURSIVE CollapseMarks(_)
CollapseMarks(text) ==
    IF Len(text) < 2 THEN text
    ELSE IF text[1] \in Marks /\ text[2] = text[1]
         THEN CollapseMarks(Tail(text))
         ELSE <<text[1]>> \o CollapseMarks(Tail(text))

\* a text without whitespace at its ends: every run of whitespace becomes
\* one blank
RECURSIVE JoinRuns(_)
JoinRuns(text) ==
    IF Len(text) < 2 THEN text
    ELSE IF text[1] \in Whitespace
         THEN IF text[2] \in Whitespace
              THEN JoinRuns(Tail(text))
              ELSE <<" ">> \o JoinRuns(Tail(text))
         ELSE <<text[1]>> \o JoinRuns(Tail(text))

\* ' '.join(text.split())
CollapseSpaces(text) == JoinRuns(Strip(text))

\* clean_text_for_tts(text)
clean_text_for_tts(text) ==
    CollapseSpaces(CollapseMarks(RemoveSymbols(RemoveAsterisks(text))))

\* the text that tts is called with for a scene
TtsText(narration) == clean_text_for_tts(Strip(narration))

\* what shutil.rmtree(temp_dir) inside try / except Exception leaves, in
\* generate_voiceover and in compile_youtube_short: the directory is gone,
\* or the call raised, the except clause logged a warning and the directory
\* is still on disk
RmtreeOutcomes == {"removed", "removal_failed"}

\* temp_dir = tempfile.mkdtemp() of generate_voiceover
VoiceStart ==
    /\ cpc = "voice"
    /\ voice_dir = "none"
    /\ voice_dir' = "exists"
    /\ UNCHANGED scene_duration
    /\ UNCHANGED <<narration_text, audio_duration, adjusted_duration, cpc, vi,
                   ri, cur, scene_files, temp_dir, result, error>>
    /\ UNCHANGED <<subtitles_dir, transcript, align_log, concat_file, encoder,
                   output_exists>>
    /\ UNCHANGED tts_log
    /\ UNCHANGED <<pvars, svars, wvars, rvars, kvars>>

\* a scene without narration is passed over
VoiceSkip ==
    /\ cpc = "voice"
    /\ voice_dir = "exists"
    /\ vi <= NScenes
    /\ IsSilent(narration_text[vi])
    /\ vi' = vi + 1
    /\ UNCHANGED scene_duration
    /\ UNCHANGED <<narration_text, audio_duration, adjusted_duration, cpc, ri,
                   cur, scene_files, temp_dir, result, error>>
    /\ UNCHANGED <<voice_dir, subtitles_dir, transcript, align_log,
                   concat_file, encoder, output_exists>>
    /\ UNCHANGED tts_log
    /\ UNCHANGED <<pvars, svars, wvars, rvars, kvars>>

\* tts wrote the scene's file: its duration is measured and recorded
VoiceSynthesize ==
    /\ cpc = "voice"
    /\ voice_dir = "exists"
    /\ vi <= NScenes
    /\ ~IsSilent(narration_text[vi])
    /\ tts_log' = Append(tts_log, TtsText(narration_text[vi]))
    /\ \E d \in Durations :
          audio_duration' = [audio_duration EXCEPT ![vi] = d]
    /\ vi' = vi + 1
    /\ UNCHANGED scene_duration
    /\ UNCHANGED <<narration_text, adjusted_duration, cpc, ri, cur,
                   scene_files, temp_dir, result, error>>
    /\ UNCHANGED <<voice_dir, subtitles_dir, transcript, align_log,
                   concat_file, encoder, output_exists>>
    /\ UNCHANGED <<pvars, svars, wvars, rvars, kvars>>

\* tts wrote no file, or tts or the decoder raised: generate_voiceover
\* returns False through its finally clause, which removes its directory or
\* fails to; compile_youtube_short raises
VoiceSceneFails ==
    /\ cpc = "voice"
    /\ voice_dir = "exists"
    /\ vi <= NScenes
    /\ ~IsSilent(narration_text[vi])
    /\ tts_log' = Append(tts_log, TtsText(narration_text[vi]))
    /\ voice_dir' \in RmtreeOutcomes
    /\ Abort("Failed to generate voiceover")
    /\ UNCHANGED scene_duration
    /\ UNCHANGED <<narration_text, audio_duration, adjusted_duration, vi, ri,
                   cur, scene_files, temp_dir>>
    /\ UNCHANGED <<subtitles_dir, transcript, align_log, concat_file, encoder,
                   output_exists>>
    /\ UNCHANGED <<pvars, svars, wvars, rvars, kvars>>

\* the scenes that have an audio segment
Segments == {i \in 1..NScenes : audio_duration[i] # Absent}

\* after the loop: if not audio_segments: return False, through the finally
\* clause
VoiceNoSegments ==
    /\ cpc = "voice"
    /\ voice_dir = "exists"
    /\ vi > NScenes
    /\ Segments = {}
    /\ voice_dir' \in RmtreeOutcomes
    /\ Abort("Failed to generate voiceover")
    /\ UNCHANGED scene_duration
    /\ UNCHANGED <<narration_text, audio_duration, adjusted_duration, vi, ri,
                   cur, scene_files, temp_dir>>
    /\ UNCHANGED <<subtitles_dir, transcript, align_log, concat_file, encoder,
                   output_exists>>
    /\ UNCHANGED tts_log
    /\ UNCHANGED <<pvars, svars, wvars, rvars, kvars>>

\* after the loop: combined_audio.export, a call without a timeout, raised:
\* False, through the finally clause
VoiceFails ==
    /\ cpc = "voice"
    /\ voice_dir = "exists"
    /\ vi > NScenes
    /\ Segments # {}
    /\ voice_dir' \in RmtreeOutcomes
    /\ Abort("Failed to generate voiceover")
    /\ UNCHANGED scene_duration
    /\ UNCHANGED <<narration_text, audio_duration, adjusted_duration, vi, ri,
                   cur, scene_files, temp_dir>>
    /\ UNCHANGED <<subtitles_dir, transcript, align_log, concat_file, encoder,
                   output_exists>>
    /\ UNCHANGED tts_log
    /\ UNCHANGED <<pvars, svars, wvars, rvars, kvars>>

\* after the loop: the segments are combined and combined_audio.export, a
\* call without a timeout, returned: True, through the finally clause
VoiceDone ==
    /\ cpc = "voice"
    /\ voice_dir = "exists"
    /\ vi > NScenes
    /\ Segments # {}
    /\ voice_dir' \in RmtreeOutcomes
    /\ cpc' = AfterStage(cpc)
    /\ UNCHANGED scene_duration
    /\ UNCHANGED <<narration_text, audio_duration, adjusted_duration, vi, ri,
                   cur, scene_files, temp_dir, result, error>>
    /\ UNCHANGED <<subtitles_dir, transcript, align_log, concat_file, encoder,
                   output_exists>>
    /\ UNCHANGED tts_log
    /\ UNCHANGED <<pvars, svars, wvars, rvars, kvars>>

---------------------------------------------------------------------------
(* generate_subtitles and align_with_gentle *)

\* 'none, no voiceover, no subtitles, just music'
NO_SUBTITLES == <<"none", ",", " ", "no", " ", "voiceover", ",", " ", "no",
                  " ", "subtitles", ",", " ", "just", " ", "music">>

\* str.replace(old, new) for single tokens
Replace(s, old, new) == [i \in 1..Len(s) |-> IF s[i] = old THEN new ELSE s[i]]

\* the text a scene contributes to input_text.txt
TranscriptText(narration) ==
    LET text == Strip(Replace(narration, "\n", " ")) IN
    IF text # <<>> /\ Lower(text) # NO_SUBTITLES
    THEN text \o <<" ">>
    ELSE <<>>

\* the content of input_text.txt: the loop over the scenes
RECURSIVE Transcript(_)
Transcript(narrations) ==
    IF narrations = <<>> THEN <<>>
    ELSE TranscriptText(Head(narrations)) \o Transcript(Tail(narrations))

\* what one call of align_with_gentle ends in: a result with content, the
\* empty result, a transport error (requests.post raises), a non-success
\* response (raise_for_status raises)
AlignOutcomes == {"result", "empty_result", "transport_error", "http_error"}

\* a test that sees the transport error only
AlignFailed_transport_only(outcome) == outcome = "transport_error"

\* not alignment_result: align_with_gentle returned None or nothing
AlignFailed(outcome) == outcome # "result"

\* generate_subtitles makes its directory, writes the transcript and posts
\* it with the audio to the alignment service; the request has no timeout
SubtitlesStart ==
    /\ cpc = "subtitles"
    /\ subtitles_dir = "none"
    /\ subtitles_dir' = "exists"
    /\ transcript' = Transcript(narration_text)
    /\ UNCHANGED scene_duration
    /\ UNCHANGED <<narration_text, audio_duration, adjusted_duration, cpc, vi,
                   ri, cur, scene_files, temp_dir, result, error>>
    /\ UNCHANGED <<voice_dir, align_log, concat_file, encoder, output_exists>>
    /\ UNCHANGED tts_log
    /\ UNCHANGED <<pvars, svars, wvars, rvars, kvars>>

\* the alignment service answers with a result: the subtitle file is
\* written and the directory removed: True
SubtitlesDone ==
    /\ cpc = "subtitles"
    /\ subtitles_dir = "exists"
    /\ subtitles_dir' = "removed"
    /\ UNCHANGED transcript
    /\ \E outcome \in AlignOutcomes :
          /\ ~AlignFailed(outcome)
          /\ align_log' = Append(align_log, outcome)
    /\ cpc' = AfterStage(cpc)
    /\ UNCHANGED scene_duration
    /\ UNCHANGED <<narration_text, audio_duration, adjusted_duration, vi, ri,
                   cur, scene_files, temp_dir, result, error>>
    /\ UNCHANGED <<voice_dir, concat_file, encoder, output_exists>>
    /\ UNCHANGED tts_log
    /\ UNCHANGED <<pvars, svars, wvars, rvars, kvars>>

\* the request returns and the alignment failed, or writing the subtitle
\* file raised: the handler returns False and leaves the directory;
\* compile_youtube_short raises
SubtitlesFail ==
    /\ cpc = "subtitles"
    /\ subtitles_dir = "exists"
    /\ UNCHANGED <<subtitles_dir, transcript>>
    /\ \E outcome \in AlignOutcomes :
          align_log' = Append(align_log, outcome)
    /\ Abort("Failed to generate subtitles")
    /\ UNCHANGED scene_duration
    /\ UNCHANGED <<narration_text, audio_duration, adjusted_duration, vi, ri,
                   cur, scene_files, temp_dir>>
    /\ UNCHANGED <<voice_dir, concat_file, encoder, output_exists>>
    /\ UNCHANGED tts_log
    /\ UNCHANGED <<pvars, svars, wvars, rvars, kvars>>


---------------------------------------------------------------------------
(* Duration reconciliation *)

\* scene.get('audio_duration', DEFAULT_SCENE_DURATION), in ticks
original_duration(i) ==
    Get(audio_duration[i], DEFAULT_SCENE_DURATION * TICKS_PER_SECOND)

\* sum(scene.get('audio_duration', 0) for scene in scenes)
total_audio_duration ==
    Sum([i \in 1..NScenes |-> Get(audio_duration[i], 0)])

\* sum(scene.get('audio_duration', DEFAULT_SCENE_DURATION) for scene in scenes)
total_video_duration ==
    Sum([i \in 1..NScenes |-> original_duration(i)])

\* abs(total_video_duration - total_audio_duration) > 0.1
DurationsDiffer ==
    Abs(total_video_duration - total_audio_duration) > TOLERANCE

\* the quotient the wrong way round
scaling_factor_inverted == Frac(total_video_duration, total_audio_duration)

\* total_audio_duration / total_video_duration
scaling_factor == Frac(total_audio_duration, total_video_duration)

\* original_duration * scaling_factor
Scaled(duration, factor) == Frac(duration * factor.num, factor.den)

\* the reconciliation without its scaling branch
Reconciled_never_scaled(i) == Frac(original_duration(i), 1)

\* the 'adjusted_duration' the reconciliation gives scene i
Reconciled(i) ==
    IF DurationsDiffer
    THEN Scaled(original_duration(i), scaling_factor)
    ELSE Frac(original_duration(i), 1)

\* both branches of the reconciliation; a division by zero raises
Reconcile ==
    /\ cpc = "reconcile"
    /\ IF DurationsDiffer /\ total_video_duration = 0
       THEN /\ Abort("division by zero")
            /\ UNCHANGED adjusted_duration
       ELSE /\ adjusted_duration' = [i \in 1..NScenes |-> Reconciled(i)]
            /\ cpc' = AfterStage(cpc)
            /\ UNCHANGED <<result, error>>
    /\ UNCHANGED scene_duration
    /\ UNCHANGED <<narration_text, audio_duration, vi, ri, cur, scene_files,
                   temp_dir>>
    /\ UNCHANGED <<voice_dir, subtitles_dir, transcript, align_log,
                   concat_file, encoder, output_exists>>
    /\ UNCHANGED tts_log
    /\ UNCHANGED <<pvars, svars, wvars, rvars, kvars>>

---------------------------------------------------------------------------
(* The scene loop: the media resolver.  Scene i of the model is the scene   *)
(* of index i - 1 of enumerate(scenes): scene 1 is the opening scene.       *)

\* 'image_path' / 'video_path' of a scene: not in the dict, a path of no
\* file, or a path of a file on disk
MediaStates == {"absent", "missing", "ondisk"}

\* duration <= 0 (the duration is a number in every case)
InvalidDuration(d) == d.num <= 0

\* the chain with the video test ahead of the opening-scene test
Branch_video_first(i, image, video) ==
    IF video = "ondisk" THEN "video"
    ELSE IF i = 1 /\ image # "absent" THEN "zoom"
    ELSE IF image = "ondisk" THEN "image"
    ELSE "fallback"

\* the if / elif chain of the resolver
Branch(i, image, video) ==
    IF i = 1 /\ image # "absent" THEN "zoom"
    ELSE IF video = "ondisk" THEN "video"
    ELSE IF image = "ondisk" THEN "image"
    ELSE "fallback"

\* the clip file a branch writes
ClipFile(branch) == IF branch = "fallback" THEN "fallback" ELSE "processed"

\* YOUTUBE_SHORT_RESOLUTION = (1080, 1920)
YOUTUBE_SHORT_RESOLUTION == <<1080, 1920>>

\* the value of -r in the encoder invocations
FRAME_RATE == 30

\* what the encoder invocation of a branch fixes for its clip: the frame
\* size, the -r option, the -pix_fmt option and the -c:v option; "unset"
\* when the invocation has no such option
Encoding(branch) ==
    CASE branch = "zoom" ->
            [size |-> YOUTUBE_SHORT_RESOLUTION, rate |-> ToString(FRAME_RATE),
             pix_fmt |-> "yuv420p", codec |-> "libx264"]
      [] branch = "video" ->
            [size |-> YOUTUBE_SHORT_RESOLUTION, rate |-> ToString(FRAME_RATE),
             pix_fmt |-> "unset", codec |-> "libx264"]
      [] branch = "image" ->
            [size |-> YOUTUBE_SHORT_RESOLUTION, rate |-> ToString(FRAME_RATE),
             pix_fmt |-> "unset", codec |-> "libx264"]
      [] branch = "fallback" ->
            [size |-> YOUTUBE_SHORT_RESOLUTION, rate |-> "unset",
             pix_fmt |-> "unset", codec |-> "libx265"]

\* a list that takes the new clip at its front
append_at_front(list, clip) == <<clip>> \o list

\* scene_files.append(processed_path)
append(list, clip) == Append(list, clip)

\* a scene whose duration is not positive is skipped
ResolveSkip ==
    /\ cpc = "resolve"
    /\ ri <= NScenes
    /\ InvalidDuration(adjusted_duration[ri])
    /\ cur' = [NoCur EXCEPT !.scene = ri, !.branch = "skipped"]
    /\ ri' = ri + 1
    /\ UNCHANGED scene_duration
    /\ UNCHANGED <<narration_text, audio_duration, adjusted_duration, cpc, vi,
                   scene_files, temp_dir, result, error>>
    /\ UNCHANGED <<voice_dir, subtitles_dir, transcript, align_log,
                   concat_file, encoder, output_exists>>
    /\ UNCHANGED tts_log
    /\ UNCHANGED <<pvars, svars, wvars, rvars, kvars>>

\* one scene: the branch is chosen and its encoder invocation runs.  Each
\* of the four functions catches what its invocation raises and returns
\* None; the clip is appended when a path is returned and the file exists.
\* The except clause of the loop is never entered.
ResolveScene ==
    /\ cpc = "resolve"
    /\ ri <= NScenes
    /\ ~InvalidDuration(adjusted_duration[ri])
    /\ \E image \in MediaStates, video \in MediaStates, ok \in BOOLEAN :
          \* the encoder cannot read an image that is not on disk
          /\ (Branch(ri, image, video) = "zoom" /\ image = "missing")
                => ~ok
          /\ cur' = [scene |-> ri, image |-> image, video |-> video,
                     branch |-> Branch(ri, image, video), ok |-> ok]
          /\ scene_files' =
                IF ok
                THEN append(scene_files,
                            [scene |-> ri,
                             file |-> ClipFile(Branch(ri, image, video)),
                             encoding |-> Encoding(Branch(ri, image, video))])
                ELSE scene_files
    /\ ri' = ri + 1
    /\ UNCHANGED scene_duration
    /\ UNCHANGED <<narration_text, audio_duration, adjusted_duration, cpc, vi,
                   temp_dir, result, error>>
    /\ UNCHANGED <<voice_dir, subtitles_dir, transcript, align_log,
                   concat_file, encoder, output_exists>>
    /\ UNCHANGED tts_log
    /\ UNCHANGED <<pvars, svars, wvars, rvars, kvars>>

---------------------------------------------------------------------------
(* Manifest, encoder and cleanup *)

\* the scene loop has ended and no scene is being resolved any more:
\* concat.txt is written, one line per clip of the clip list, in the order
\* of the list
ManifestWritten ==
    /\ cpc = "resolve"
    /\ ri > NScenes
    /\ concat_file' = [written |-> TRUE, files |-> scene_files]
    /\ cur' = NoCur
    /\ cpc' = AfterStage(cpc)
    /\ UNCHANGED scene_duration
    /\ UNCHANGED <<narration_text, audio_duration, adjusted_duration, vi, ri,
                   scene_files, temp_dir, result, error>>
    /\ UNCHANGED <<voice_dir, subtitles_dir, transcript, align_log, encoder,
                   output_exists>>
    /\ UNCHANGED tts_log
    /\ UNCHANGED <<pvars, svars, wvars, rvars, kvars>>

\* opening or writing concat.txt raised
ManifestFails ==
    /\ cpc = "resolve"
    /\ ri > NScenes
    /\ Abort("manifest")
    /\ cur' = NoCur
    /\ UNCHANGED scene_duration
    /\ UNCHANGED <<narration_text, audio_duration, adjusted_duration, vi, ri,
                   scene_files, temp_dir>>
    /\ UNCHANGED <<voice_dir, subtitles_dir, transcript, align_log,
                   concat_file, encoder, output_exists>>
    /\ UNCHANGED tts_log
    /\ UNCHANGED <<pvars, svars, wvars, rvars, kvars>>

\* a return that does not look for the output file
CompiledPath_unchecked(exists) == "output_path"

\* if os.path.exists(output_path): return output_path, else: return None
CompiledPath(exists) == IF exists THEN "output_path" ELSE "None"

\* the encoder exits with success; the output file exists or not
EncodeExits ==
    /\ cpc = "encode"
    /\ encoder' = "success"
    /\ \E exists \in BOOLEAN :
          /\ output_exists' = exists
          /\ result' = CompiledPath(exists)
          /\ error' = IF exists THEN error
                      ELSE "Failed to create output video"
    /\ cpc' = AfterStage(cpc)
    /\ UNCHANGED scene_duration
    /\ UNCHANGED <<narration_text, audio_duration, adjusted_duration, vi, ri,
                   cur, scene_files, temp_dir>>
    /\ UNCHANGED <<voice_dir, subtitles_dir, transcript, align_log,
                   concat_file>>
    /\ UNCHANGED tts_log
    /\ UNCHANGED <<pvars, svars, wvars, rvars, kvars>>

\* the encoder exits with a failure (check=True raises CalledProcessError);
\* a file of an earlier run may be at output_path
EncodeFails ==
    /\ cpc = "encode"
    /\ encoder' = "failure"
    /\ \E exists \in BOOLEAN : output_exists' = exists
    /\ Abort("encoder")
    /\ UNCHANGED scene_duration
    /\ UNCHANGED <<narration_text, audio_duration, adjusted_duration, vi, ri,
                   cur, scene_files, temp_dir>>
    /\ UNCHANGED <<voice_dir, subtitles_dir, transcript, align_log,
                   concat_file>>
    /\ UNCHANGED tts_log
    /\ UNCHANGED <<pvars, svars, wvars, rvars, kvars>>

\* finally: the clips, concat.txt and the subtitle file are removed, then
\* shutil.rmtree(temp_dir) inside try / except Exception
Cleanup ==
    /\ cpc = "cleanup"
    /\ temp_dir' \in RmtreeOutcomes
    /\ cpc' = AfterStage(cpc)
    /\ UNCHANGED scene_duration
    /\ UNCHANGED <<narration_text, audio_duration, adjusted_duration, vi, ri,
                   cur, scene_files, result, error>>
    /\ UNCHANGED <<voice_dir, subtitles_dir, transcript, align_log,
                   concat_file, encoder, output_exists>>
    /\ UNCHANGED tts_log
    /\ UNCHANGED <<pvars, svars, wvars, rvars, kvars>>

CompileNext ==
    \/ CompileNoScenes
    \/ CompileStart
    \/ VoiceStart
    \/ VoiceSkip
    \/ VoiceSynthesize
    \/ VoiceSceneFails
    \/ VoiceNoSegments
    \/ VoiceFails
    \/ VoiceDone
    \/ SubtitlesStart
    \/ SubtitlesDone
    \/ SubtitlesFail
    \/ Reconcile
    \/ ResolveSkip
    \/ ResolveScene
    \/ ManifestWritten
    \/ ManifestFails
    \/ EncodeExits
    \/ EncodeFails
    \/ Cleanup

SpecCompile == CompileInit /\ [][CompileNext]_vars

\* the steps the run takes by itself.  The other steps are the return of a
\* call of a collaborator: tts (VoiceSynthesize, VoiceSceneFails), the
\* export of the combined track (VoiceDone, VoiceFails), the alignment
\* request (SubtitlesDone, SubtitlesFail) and the encoder process
\* (ResolveScene, EncodeExits, EncodeFails); these calls are made without a
\* timeout, so nothing makes them return
ProgramStep ==
    \/ CompileNoScenes
    \/ CompileStart
    \/ VoiceStart
    \/ VoiceSkip
    \/ VoiceNoSegments
    \/ SubtitlesStart
    \/ Reconcile
    \/ ResolveSkip
    \/ ManifestWritten
    \/ ManifestFails
    \/ Cleanup

\* a run whose own steps are taken when they can be
SpecCompileLive == SpecCompile /\ WF_vars(ProgramStep)

---------------------------------------------------------------------------
(* gentle_alignment_to_srt and format_time.  Times are counted in          *)
(* milliseconds.  The subtitle file is the sequence of the lines written.  *)

\* an alignment result has at most MaxWords words
MaxWords == 2

\* the start and end times of the words, in milliseconds
Times == {0, 1130, 1250, 3723250}

\* the values of word_info.get('word', '')
Words == {"good", "morning"}

\* a two-digit field of str(timedelta)
TwoDigits(n) == <<ToString(n \div 10), ToString(n % 10)>>

\* f"{millis:03d}"
ThreeDigits(n) ==
    <<ToString(n \div 100), ToString((n \div 10) % 10), ToString(n % 10)>>

\* str.zfill(width)
RECURSIVE ZFill(_, _)
ZFill(s, width) == IF Len(s) >= width THEN s ELSE ZFill(<<"0">> \o s, width)

\* str(timedelta) without its fraction: H:MM:SS, after "D day(s), " from
\* 24 hours on
timedelta_str(ms) ==
    LET days == ms \div 86400000
        hms == Str((ms \div 3600000) % 24) \o <<":">>
                 \o TwoDigits((ms \div 60000) % 60)
                 \o <<":">> \o TwoDigits((ms \div 1000) % 60)
    IN IF days = 0 THEN hms
       ELSE Str(days) \o <<" ", IF days = 1 THEN "day" ELSE "days", ",", " ">>
               \o hms

\* The seconds are a binary float with a 53-bit significand.  For a time of
\* ms milliseconds, x = delta.total_seconds() is the float nearest to
\* ms / 1000: x = M / 2^k with 2^52 <= M < 2^53.  The operators below give
\* int((x - int(x)) * 1000) in integer arithmetic.
SIGNIFICAND_BITS == 53

\* L with 2^L <= ms / 1000 < 2^(L + 1), for ms >= 1000; p = 1000 * 2^L
RECURSIVE ExponentUp(_, _, _)
ExponentUp(ms, p, L) ==
    IF 2 * p <= ms THEN ExponentUp(ms, 2 * p, L + 1) ELSE L

\* L with 2^L <= ms / 1000 < 2^(L + 1), for 0 < ms < 1000; v = ms * 2^(-L)
RECURSIVE ExponentDown(_, _)
ExponentDown(v, L) ==
    IF v < 1000 THEN ExponentDown(2 * v, L - 1) ELSE L

\* the binary exponent of ms / 1000
FloatExponent(ms) ==
    IF ms >= 1000 THEN ExponentUp(ms, 1000, 0) ELSE ExponentDown(ms, 0)

\* 2^k modulo 1000
RECURSIVE Pow2Mod1000(_)
Pow2Mod1000(k) == IF k = 0 THEN 1 ELSE (2 * Pow2Mod1000(k - 1)) % 1000

\* j with 2^j <= f < 2^(j + 1); p = 2^j
RECURSIVE FloorLog2(_, _, _)
FloorLog2(f, p, j) == IF 2 * p <= f THEN FloorLog2(f, 2 * p, j + 1) ELSE j

RECURSIVE Pow2(_)
Pow2(n) == IF n = 0 THEN 1 ELSE 2 * Pow2(n - 1)

\* millis = int((delta.total_seconds() - total_seconds) * 1000).  With
\* f = ms % 1000 and r = (ms * 2^k) % 1000, x lies r / (1000 * 2^k) below
\* ms / 1000 when r < 500 and above it otherwise; the subtraction is exact,
\* and the product is f when x is not below, or when the shortfall r / 2^k
\* is at most half the distance from f to the float before f; otherwise
\* the product is below f and int() gives f - 1.
millis(ms) ==
    LET f == ms % 1000
        L == FloatExponent(ms)
        k == SIGNIFICAND_BITS - 1 - L
        r == (f * Pow2Mod1000(k)) % 1000
        j == FloorLog2(f, 1, 0)
        half_gap == IF Pow2(j) = f THEN j - 2 - L ELSE j - 1 - L
    IN IF f = 0 THEN 0
       ELSE IF r = 0 \/ r >= 500 THEN f
       ELSE IF half_gap >= 0 /\ r <= Pow2(half_gap) THEN f
       ELSE f - 1

\* format_time(seconds): HH:MM:SS,mmm
format_time(ms) ==
    ZFill(timedelta_str(ms), 8) \o <<",">> \o ThreeDigits(millis(ms))

\* a test by truth value: a time of 0 counts as missing
HasTimes_truthy(word_info) ==
    /\ word_info.start # None /\ word_info.start # 0
    /\ word_info.end # None /\ word_info.end # 0

\* start is not None and end is not None
HasTimes(word_info) == word_info.start # None /\ word_info.end # None

\* the four lines written for one word
CueLines(index, word_info) ==
    << Str(index),
       format_time(word_info.start) \o <<" ", "-->", " ">>
           \o format_time(word_info.end),
       <<word_info.word>>,
       <<>> >>

\* the loop over gentle_alignment.get('words', []), index the next cue index
RECURSIVE SrtLines(_, _)
SrtLines(words, index) ==
    IF words = <<>> THEN <<>>
    ELSE IF HasTimes(Head(words))
         THEN CueLines(index, Head(words)) \o SrtLines(Tail(words), index + 1)
         ELSE SrtLines(Tail(words), index)

\* the content of the subtitle file; index = 1 at the start
gentle_alignment_to_srt(words) == SrtLines(words, 1)

WordInfos == [word : Words, start : Times \cup {None}, end : Times \cup {None}]

SrtInit ==
    /\ ParseIdle
    /\ CompileIdle
    /\ WorkflowIdle
    /\ RelevanceIdle
    /\ ConcurrentIdle
    /\ \E n \in 0..MaxWords : gentle_alignment \in [1..n -> WordInfos]
    /\ srt_file = <<>>
    /\ spc = "call"

\* one call of gentle_alignment_to_srt
SrtCall ==
    /\ spc = "call"
    /\ srt_file' = gentle_alignment_to_srt(gentle_alignment)
    /\ spc' = "done"
    /\ UNCHANGED gentle_alignment
    /\ UNCHANGED <<pvars, cvars, wvars, rvars, kvars>>

SrtNext == SrtCall

SpecSrt == SrtInit /\ [][SrtNext]_vars




---------------------------------------------------------------------------
(* Properties of the reconciliation and of the resolver *)

\* the reconciliation step has run: every scene has its adjusted duration
ReconciliationDone ==
    /\ cpc \in {"resolve", "encode", "cleanup", "done"}
    /\ NScenes > 0
    /\ \A i \in 1..NScenes : adjusted_duration[i].den > 0

\* A: the recorded audio durations, a silent scene counting 0
AudioTotal ==
    Sum([i \in 1..NScenes |->
            IF audio_duration[i] = Absent THEN 0 ELSE audio_duration[i]])

\* a scene's nominal duration: its audio duration, the default when it has
\* none
Nominal(i) ==
    IF audio_duration[i] = Absent
    THEN DEFAULT_SCENE_DURATION * TICKS_PER_SECOND
    ELSE audio_duration[i]

\* V: the nominal durations
VideoTotal == Sum([i \in 1..NScenes |-> Nominal(i)])

\* the adjusted duration of scene i is num / den seconds (in ticks)
AdjustedIs(i, num, den) ==
    adjusted_duration[i].num * den = num * adjusted_duration[i].den

\* C6 (as claimed): after the reconciliation the adjusted durations sum to
\* the total narration duration A within 0.1 s, and every adjusted duration
\* is strictly positive.
C6_SumMatchesAndPositive ==
    ReconciliationDone =>
        /\ \A i \in 1..NScenes : adjusted_duration[i].num > 0
        /\ LET den == adjusted_duration[1].den
               total == Sum([i \in 1..NScenes |-> adjusted_duration[i].num])
           IN /\ \A i \in 1..NScenes : adjusted_duration[i].den = den
              /\ Abs(total - AudioTotal * den) <= TOLERANCE * den

\* C7: if |V - A| > 0.1 s every scene gets adjusted = nominal * (A / V), the
\* same factor for all scenes; otherwise every scene gets adjusted = nominal.
C7_ReconciliationRule ==
    ReconciliationDone =>
        IF Abs(VideoTotal - AudioTotal) > TOLERANCE
        THEN \A i \in 1..NScenes :
                AdjustedIs(i, Nominal(i) * AudioTotal, VideoTotal)
        ELSE \A i \in 1..NScenes : AdjustedIs(i, Nominal(i), 1)

\* C7 witness: a scene narrated for 2.0 s and a silent scene (A = 2.0,
\* V = 3.0) have been scaled by 2/3, to 4/3 s and 2/3 s.
C7_Witness ==
    /\ ReconciliationDone
    /\ NScenes = 2
    /\ AudioTotal = 2 * TICKS_PER_SECOND
    /\ VideoTotal = 3 * TICKS_PER_SECOND
    /\ \E i, j \in 1..NScenes :
          /\ Nominal(i) = 2 * TICKS_PER_SECOND
          /\ AdjustedIs(i, 4 * TICKS_PER_SECOND, 3)
          /\ audio_duration[j] = Absent
          /\ AdjustedIs(j, 2 * TICKS_PER_SECOND, 3)

\* the scenes are narrated: each has a measured narration duration
AllNarrated == \A i \in 1..NScenes : audio_duration[i] # Absent

\* C8 (as claimed): two scenes given the nominal durations [1.0 s, 1.0 s]
\* (V = 2.0) whose measured narration durations sum to A = 3.0 are
\* reconciled with the factor 1.5: the scaling is applied, V is 2.0 and the
\* adjusted durations are [1.5, 1.5].
C8_FactorOneAndAHalf ==
    (/\ ReconciliationDone
     /\ NScenes = 2
     /\ scene_duration = <<TICKS_PER_SECOND, TICKS_PER_SECOND>>
     /\ AllNarrated
     /\ AudioTotal = 3 * TICKS_PER_SECOND) =>
        /\ VideoTotal = Sum(scene_duration)
        /\ Abs(VideoTotal - AudioTotal) > TOLERANCE
        /\ \A i \in 1..2 : AdjustedIs(i, 3 * TICKS_PER_SECOND, 2)

\* C8 (amended): for two scenes given the durations [1.0 s, 1.0 s] the
\* reconciliation does not read the given durations: V is the sum of the
\* scenes' measured narration durations, 1.0 s standing for a silent scene,
\* so A is never above V.  When both scenes are narrated and their measured
\* durations sum to A = 3.0, V = 3.0, nothing is scaled and each adjusted
\* duration is the scene's measured duration.  When one scene is narrated
\* for 1.0 s and the other is silent, V = 2.0, A = 1.0 and both are scaled
\* by the factor 0.5 to [0.5, 0.5].
C8_FactorAtMostOne ==
    (/\ ReconciliationDone
     /\ NScenes = 2
     /\ scene_duration = <<TICKS_PER_SECOND, TICKS_PER_SECOND>>) =>
        /\ AudioTotal <= VideoTotal
        /\ (AllNarrated /\ AudioTotal = 3 * TICKS_PER_SECOND) =>
              /\ VideoTotal = 3 * TICKS_PER_SECOND
              /\ \A i \in 1..2 : AdjustedIs(i, audio_duration[i], 1)
        /\ (/\ \E i \in 1..2 : audio_duration[i] = TICKS_PER_SECOND
            /\ \E i \in 1..2 : audio_duration[i] = Absent) =>
              /\ VideoTotal = 2 * TICKS_PER_SECOND
              /\ AudioTotal = TICKS_PER_SECOND
              /\ \A i \in 1..2 : AdjustedIs(i, TICKS_PER_SECOND, 2)

\* C8 witness: two scenes given 1.0 s each and narrated for 1.0 s and 2.0 s
\* (A = 3.0) have the adjusted durations 1.0 s and 2.0 s.
C8_Witness ==
    /\ ReconciliationDone
    /\ NScenes = 2
    /\ scene_duration = <<TICKS_PER_SECOND, TICKS_PER_SECOND>>
    /\ audio_duration = <<TICKS_PER_SECOND, 2 * TICKS_PER_SECOND>>
    /\ AdjustedIs(1, TICKS_PER_SECOND, 1)
    /\ AdjustedIs(2, 2 * TICKS_PER_SECOND, 1)

\* the clips of scene i in the clip list
ClipsOf(i) == {k \in 1..Len(scene_files) : scene_files[k].scene = i}

\* C9: a resolved scene takes exactly one branch, by priority: (1) opening
\* scene with a generated image: zoom; (2) else a video on disk: trimmed
\* video; (3) else an image on disk: static image; (4) else the fallback
\* card.  A clip of the scene comes from that branch.
C9_BranchPriority ==
    (cur.scene > 0 /\ cur.branch # "skipped") =>
        LET c1 == cur.scene = 1 /\ cur.image \in {"missing", "ondisk"}
            c2 == cur.video = "ondisk"
            c3 == cur.image = "ondisk"
        IN /\ cur.branch \in {"zoom", "video", "image", "fallback"}
           /\ cur.branch = "zoom" <=> c1
           /\ cur.branch = "video" <=> (~c1 /\ c2)
           /\ cur.branch = "image" <=> (~c1 /\ ~c2 /\ c3)
           /\ cur.branch = "fallback" <=> (~c1 /\ ~c2 /\ ~c3)
           /\ Cardinality(ClipsOf(cur.scene)) <= 1
           /\ \A k \in ClipsOf(cur.scene) :
                 scene_files[k].file = "fallback" <=> cur.branch = "fallback"

\* C9 witness: a later scene whose video path names no file and whose image
\* is on disk became a static image clip.
C9_Witness ==
    /\ cur.scene = 2
    /\ cur.video = "missing"
    /\ cur.image = "ondisk"
    /\ cur.branch = "image"
    /\ cur.ok
    /\ ClipsOf(2) # {}

\* C10 (as claimed): when the encoder invocation of branch 1, 2 or 3 fails
\* for a scene, the scene gets the fallback card, which is added to the clip
\* list.
C10_FailureFallsBack ==
    (cur.branch \in {"zoom", "video", "image"} /\ ~cur.ok) =>
        \E k \in ClipsOf(cur.scene) : scene_files[k].file = "fallback"

---------------------------------------------------------------------------
(* Properties of the manifest, of the cleanup and of the stage order *)

\* the lines of concat.txt that name a clip of scene i
ManifestClipsOf(i) ==
    {k \in 1..Len(concat_file.files) : concat_file.files[k].scene = i}

\* C11 (as claimed): when the manifest is built it holds exactly one clip per
\* scene of the storyboard, whatever the media, the duration and the branch
\* outcome of the scene.
C11_OneClipPerScene ==
    concat_file.written =>
        \A i \in 1..NScenes : Cardinality(ManifestClipsOf(i)) = 1

\* C12: the clips of the manifest are in scene order: for any two scenes
\* i < j that both have a clip, the clip of scene i precedes the clip of
\* scene j.
C12_ManifestInSceneOrder ==
    concat_file.written =>
        \A k, l \in 1..Len(concat_file.files) :
            concat_file.files[k].scene < concat_file.files[l].scene => k < l

\* C12 witness: a manifest with the clip of scene 1 and then the clip of
\* scene 2.
C12_Witness ==
    /\ concat_file.written
    /\ Len(concat_file.files) = 2
    /\ concat_file.files[1].scene = 1
    /\ concat_file.files[2].scene = 2

\* C13 (as claimed): when a call of compile_youtube_short that created its
\* working directory has returned, with the output path or with a failure
\* of any stage, the working directory no longer exists.
C13_WorkingDirectoryRemoved ==
    (cpc = "done" /\ temp_dir # "none") => temp_dir = "removed"

\* C13 (amended): the finally block runs on every exit path of a call that
\* created its working directory: while the call is in a stage the
\* directory exists, and when the call has returned, with the output path
\* or with a failure of any stage, shutil.rmtree has been called on the
\* directory.  The directory is gone unless that call itself raised, which
\* is logged and leaves the directory on disk.
C13_RemovalAttempted ==
    /\ (cpc = "done" /\ temp_dir # "none") =>
          temp_dir \in {"removed", "removal_failed"}
    /\ cpc \in {"voice", "subtitles", "reconcile", "resolve", "encode",
                "cleanup"} => temp_dir = "exists"
    /\ (cpc = "done" /\ temp_dir = "none") => NScenes = 0

\* C13 witness: a run that failed while writing the manifest has returned;
\* the removal of its working directory raised and the directory is left.
C13_Witness ==
    /\ cpc = "done"
    /\ error = "manifest"
    /\ result = "None"
    /\ temp_dir = "removal_failed"

\* C14 (as claimed): when a run has ended, no temporary directory of the run
\* is left: the working directory, the directory of the voice synthesis and
\* the directory of the subtitle alignment are removed.
C14_NoTemporaryDirectoryLeft ==
    cpc = "done" =>
        /\ temp_dir # "exists"
        /\ voice_dir # "exists"
        /\ subtitles_dir # "exists"

\* the stages that can raise before the encoder is invoked
StagesBeforeEncode == {"voice", "subtitles", "reconcile", "resolve"}

\* the fixed order of the stages of a run without failure
StageOrder ==
    {<<"start", "voice">>, <<"voice", "subtitles">>,
     <<"subtitles", "reconcile">>, <<"reconcile", "resolve">>,
     <<"resolve", "encode">>, <<"encode", "cleanup">>, <<"cleanup", "done">>}

\* C15: a run goes through voice synthesis, subtitle alignment, duration
\* reconciliation, scene resolution, manifest construction, encode and
\* cleanup in this order, each stage acting in its own turn only; a stage
\* before the encode that fails leads to the cleanup with a failure result
\* and without an encoder invocation, and after a failure no stage but the
\* cleanup acts.
C15_StagesInOrder ==
    [][/\ cpc' # cpc =>
            \/ <<cpc, cpc'>> \in StageOrder
            \/ /\ cpc \in StagesBeforeEncode
               /\ cpc' = "cleanup"
               /\ result' = "None"
               /\ encoder' = "not_run"
            \/ cpc = "start" /\ NScenes = 0 /\ cpc' = "done"
       /\ audio_duration' # audio_duration => cpc = "voice"
       /\ align_log' # align_log => cpc = "subtitles"
       /\ adjusted_duration' # adjusted_duration => cpc = "reconcile"
       /\ scene_files' # scene_files => cpc = "resolve"
       /\ concat_file' # concat_file => (cpc = "resolve" /\ cpc' = "encode")
       /\ encoder' # encoder => cpc = "encode"
       /\ temp_dir' = "removed" => cpc \in {"cleanup", "done"}
       /\ result = "None" =>
            /\ cpc' \in {"cleanup", "done"}
            /\ result' = "None"
            /\ UNCHANGED <<audio_duration, align_log, adjusted_duration,
                           scene_files, concat_file, encoder>>
      ]_vars

\* C15 witness: the alignment failed; the run has ended with a failure, no
\* manifest and no encoder invocation, after the cleanup.
C15_Witness ==
    /\ cpc = "done"
    /\ error = "Failed to generate subtitles"
    /\ result = "None"
    /\ Segments # {}
    /\ concat_file = NoManifest
    /\ encoder = "not_run"
    /\ temp_dir = "removed"

---------------------------------------------------------------------------
(* Properties of the voice stage, of the transcript and of the alignment *)

\* a narration text without voiceover: the empty text or the text 'None'
NoVoiceover(text) == text \in {<<>>, <<"None">>}

\* generate_voiceover has returned True
VoiceReturnedTrue ==
    /\ NScenes > 0
    /\ \/ cpc \in {"subtitles", "reconcile", "resolve", "encode"}
       \/ cpc \in {"cleanup", "done"} /\ error # "Failed to generate voiceover"

\* C16: the voice stage passes over the scenes whose narration is empty or
\* the sentinel and synthesizes a segment for every other scene; it returns
\* success only with at least one segment and with a segment for every
\* narrated scene; a failure is returned (the run reports the failed
\* voiceover and no later stage has acted), not raised.
C16_VoiceStage ==
    /\ (cpc = "voice" /\ NScenes > 0) =>
          \A i \in 1..(vi - 1) :
              audio_duration[i] = Absent <=> NoVoiceover(narration_text[i])
    /\ VoiceReturnedTrue =>
          /\ Segments # {}
          /\ \A i \in 1..NScenes :
                audio_duration[i] = Absent <=> NoVoiceover(narration_text[i])
    /\ error = "Failed to generate voiceover" =>
          /\ result = "None"
          /\ voice_dir \in RmtreeOutcomes
          /\ align_log = <<>>
          /\ encoder = "not_run"

\* C16 witness: the voice stage returned success for a scene with the text
\* 'None', which has no segment, and a narrated scene, which has one.
C16_Witness ==
    /\ cpc = "subtitles"
    /\ NScenes = 2
    /\ narration_text[1] = <<"None">>
    /\ audio_duration[1] = Absent
    /\ narration_text[2] = <<"hi", " ", "there">>
    /\ audio_duration[2] # Absent

\* the narration texts, each followed by a space, of the scenes from i on
\* that have an audio segment
RECURSIVE NarratedFrom(_)
NarratedFrom(i) ==
    IF i > NScenes THEN <<>>
    ELSE (IF audio_duration[i] # Absent
          THEN narration_text[i] \o <<" ">>
          ELSE <<>>) \o NarratedFrom(i + 1)

\* C17 (as claimed): the transcript sent to the alignment is the
\* concatenation, in scene order, of the narration texts of exactly the
\* scenes for which the voice stage synthesized a segment.
C17_TranscriptMatchesSegments ==
    align_log # <<>> => transcript = NarratedFrom(1)

\* the failures of the alignment call the claim names
AlignmentFailures == {"transport_error", "http_error"}

\* C19: a transport error or a non-success response of the alignment call
\* makes generate_subtitles return failure, which fails the run before any
\* later stage; the alignment is called at most once per run.
C19_AlignmentFailureFailsRun ==
    /\ Len(align_log) <= 1
    /\ \A k \in 1..Len(align_log) :
          align_log[k] \in AlignmentFailures =>
              /\ cpc \in {"cleanup", "done"}
              /\ result = "None"
              /\ error = "Failed to generate subtitles"
              /\ concat_file = NoManifest
              /\ encoder = "not_run"

\* C19 witness: the alignment answered with a non-success response, once,
\* and the run has ended with a failure.
C19_Witness ==
    /\ align_log = <<"http_error">>
    /\ cpc = "done"
    /\ result = "None"

\* C20: compile_youtube_short returns the output path if and only if the
\* encoder exited with success and the output file exists afterwards; every
\* other outcome returns None.
C20_PathIffEncoded ==
    cpc = "done" =>
        /\ result \in {"output_path", "None"}
        /\ result = "output_path" <=> (encoder = "success" /\ output_exists)

\* C20 witness: the encoder exited with success and left the output file;
\* the run returned the output path.
C20_Witness ==
    /\ cpc = "done"
    /\ encoder = "success"
    /\ output_exists
    /\ result = "output_path"

---------------------------------------------------------------------------
(* Properties of the subtitle file *)

\* the words of the alignment result that have a start and an end
AlignedWords ==
    SelectSeq(gentle_alignment,
              LAMBDA w : w.start # None /\ w.end # None)

\* the milliseconds a timestamp HH:MM:SS,mmm stands for, ValueError when the
\* text is no such timestamp
TimeOf(ts) ==
    IF /\ Len(ts) = 12
       /\ ts[3] = ":" /\ ts[6] = ":" /\ ts[9] = ","
       /\ \A i \in {1, 2, 4, 5, 7, 8, 10, 11, 12} : ts[i] \in DigitTokens
    THEN DigitsValue(SubSeq(ts, 1, 2), 0) * 3600000
         + DigitsValue(SubSeq(ts, 4, 5), 0) * 60000
         + DigitsValue(SubSeq(ts, 7, 8), 0) * 1000
         + DigitsValue(SubSeq(ts, 10, 12), 0)
    ELSE ValueError

\* the timestamp ts names the time t at the resolution of the file: the
\* millisecond of t, or the one before it where the float of t lies below t
NamesTime(ts, t) ==
    /\ TimeOf(ts) # ValueError
    /\ TimeOf(ts) <= t
    /\ t - TimeOf(ts) <= 1

\* C18: the subtitle file holds one cue per word that has a start and an
\* end, in the order of the alignment result; cue k has the index k, spans
\* its word's start and end (to the millisecond) and shows its word; a word
\* without a start or an end has no cue and takes no index.
C18_OneCuePerAlignedWord ==
    spc = "done" =>
        /\ Len(srt_file) = 4 * Len(AlignedWords)
        /\ \A k \in 1..Len(AlignedWords) :
              LET times == srt_file[4 * k - 2] IN
              /\ IntOf(srt_file[4 * k - 3]) = k
              /\ Len(times) = 27
              /\ NamesTime(SubSeq(times, 1, 12), AlignedWords[k].start)
              /\ SubSeq(times, 13, 15) = <<" ", "-->", " ">>
              /\ NamesTime(SubSeq(times, 16, 27), AlignedWords[k].end)
              /\ srt_file[4 * k - 1] = <<AlignedWords[k].word>>
              /\ srt_file[4 * k] = <<>>

\* C18 witness: the first word has no end and the second word starts at 0;
\* the file holds the single cue of the second word, with the index 1.
C18_Witness ==
    /\ spc = "done"
    /\ Len(gentle_alignment) = 2
    /\ gentle_alignment[1].end = None
    /\ gentle_alignment[2].start = 0
    /\ gentle_alignment[2].end = 1250
    /\ Len(srt_file) = 4
    /\ srt_file[1] = <<"1">>
    /\ srt_file[3] = <<gentle_alignment[2].word>>

---------------------------------------------------------------------------
(* Properties of the timing of the composed video, of the scaling factor    *)
(* and of the inline field of a scene line                                  *)

\* the numerators of the adjusted durations of the clips at the manifest
\* positions before p (all adjusted durations have the same denominator)
RECURSIVE ClipTimeBefore(_)
ClipTimeBefore(p) ==
    IF p <= 1 THEN 0
    ELSE adjusted_duration[concat_file.files[p - 1].scene].num
            + ClipTimeBefore(p - 1)

\* the audio durations of the segments of the scenes before scene k
RECURSIVE AudioTimeBefore(_)
AudioTimeBefore(k) ==
    IF k <= 1 THEN 0
    ELSE (IF audio_duration[k - 1] = Absent THEN 0 ELSE audio_duration[k - 1])
            + AudioTimeBefore(k - 1)

\* C27 (as claimed): in the manifest the clip of every narrated scene starts
\* where the scene's segment starts in the combined audio track, within
\* 0.1 s: the adjusted durations of the clips before it sum to the audio
\* durations of the segments before it.
C27_ClipStartsWithItsSegment ==
    concat_file.written =>
        \A p \in 1..Len(concat_file.files) :
            LET k == concat_file.files[p].scene
                den == adjusted_duration[k].den
            IN audio_duration[k] # Absent =>
                  Abs(ClipTimeBefore(p) - AudioTimeBefore(k) * den)
                      <= TOLERANCE * den

\* the reconciliation step is reached or has run
AtReconciliation == cpc = "reconcile" \/ ReconciliationDone

\* the scenes without 'audio_duration'
ScenesWithoutAudio == {i \in 1..NScenes : audio_duration[i] = Absent}

\* C28 (as claimed): at the reconciliation V >= A, V - A is the number of
\* scenes without audio_duration times the default duration, the factor
\* A / V is in (0, 1] whenever it is computed, and V is not 0 when the
\* division is performed.
C28_FactorInUnitInterval ==
    AtReconciliation =>
        /\ VideoTotal >= AudioTotal
        /\ VideoTotal - AudioTotal =
              Cardinality(ScenesWithoutAudio)
                  * DEFAULT_SCENE_DURATION * TICKS_PER_SECOND
        /\ Abs(VideoTotal - AudioTotal) > TOLERANCE =>
              /\ VideoTotal # 0
              /\ 0 < AudioTotal
              /\ AudioTotal <= VideoTotal

\* the description of a scene line "<n>. Visual: <description>"
InlineVisual(line) == Strip(Split1(AfterNumber(line), ":")[2])

\* C29 (as claimed): for a scene line "<n>. Visual: <description>", the
\* format of the storyboard prompt, the parsed scene n has the visual field
\* <description>: the text after the scene number is not lost.
C29_InlineVisualKept ==
    ppc = "done" =>
        \A i \in NumberedLines(response) :
            (/\ LabelNumber(response[i]) <= MAX_SCENE_NUMBER
             /\ HasLabel(AfterNumber(response[i]), <<"visual">>)) =>
                \E k \in 1..Len(scenes) :
                    /\ scenes[k].number = LabelNumber(response[i])
                    /\ K_visual \in DOMAIN scenes[k].fields
                    /\ scenes[k].fields[K_visual] = InlineVisual(response[i])

\* C30 (as claimed): tts is never called with an empty text: every text
\* handed to tts, after clean_text_for_tts, is non-empty.
C30_TtsTextNotEmpty ==
    \A k \in 1..Len(tts_log) : tts_log[k] # <<>>

\* C23 (as claimed): the clips of all branches have the same frame size, the
\* same frame rate, the same pixel format and the same codec, each fixed by
\* the encoder invocation of its branch.
C23_ClipsEncodedAlike ==
    \A k, l \in 1..Len(scene_files) :
        scene_files[k].encoding = scene_files[l].encoding

\* C25 (as claimed): a run never blocks: also when a collaborator does not
\* answer, the run reaches its end, with the cleanup executed.
C25_RunTerminates ==
    <>(cpc = "done" /\ temp_dir # "exists")

---------------------------------------------------------------------------
(* youtube_shorts_workflow: the session check, the six agent steps that    *)
(* are wrapped in try/except, the storyboard and image steps that are not, *)
(* the duration loops, the filter, the voiceover and the compilation.      *)
(* A scene dict of the workflow is the record of the keys the workflow     *)
(* reads and writes: 'narration_text', 'image_path' (present or not),      *)
(* 'duration', 'audio_duration' and 'adjusted_duration' (Absent or Unset   *)
(* while the key is missing).  Durations are counted in ticks.             *)
(* generate_voiceover runs twice on the scene dicts, called by the         *)
(* workflow and then by compile_youtube_short; each call waits in tts for  *)
(* every narrated scene and in the export of the combined track, and       *)
(* compile_youtube_short waits in the alignment request and in the         *)
(* encoder, so each of these returns is a step of its own.                 *)

\* the storyboard agent returns at most MaxStoryboard scenes
MaxStoryboard == 3

\* the steps 1 to 6, each in a try block of its own
AGENT_STEPS == 6

\* the values of video_length the workflow is called with, in seconds
VideoLengths == {30, 60}

\* the local 'results' before the assignment results = {}
Unbound == "Unbound"

\* results = {}
EmptyResults == [Error |-> "absent", OutputVideoPath |-> "absent"]

\* the narration texts of the scenes of the storyboard
StoryboardNarrations == {<<"hi", " ", "there">>, <<"NONE">>}

\* a scene dict as parse_scenes returns it: 'narration_text' and none of
\* the four other keys
NewScene(text) == [narration_text |-> text, image_path |-> FALSE,
                   duration |-> Absent, audio_duration |-> Absent,
                   adjusted_duration |-> Unset]

\* audio_segment.duration_seconds of the segment of a scene, in ticks
SegmentLengths == {10, 20}

\* len(scene.get('script', '').split()): the scene dicts have no 'script'
word_count == 0

\* max(word_count * 0.5, 3.0), in ticks
SceneDuration == IF word_count * 5 >= 30 THEN word_count * 5 ELSE 30

WorkflowInit ==
    /\ ParseIdle
    /\ CompileIdle
    /\ SrtIdle
    /\ RelevanceIdle
    /\ ConcurrentIdle
    /\ session_id \in BOOLEAN
    /\ video_length \in VideoLengths
    /\ wpc = "session_check"
    /\ step = 1
    /\ results = Unbound
    /\ storyboard = <<>>
    /\ image_gen_result = <<>>
    /\ total_duration = 0
    /\ exception = ""
    /\ wvi = 1
    /\ wstage = "none"

\* an exception leaves the workflow
Raise(name) ==
    /\ wpc' = "raised"
    /\ exception' = name

\* if not SESSION_ID: results["Error"] = ... with 'results' not assigned yet
WorkflowNoSession ==
    /\ wpc = "session_check"
    /\ ~session_id
    /\ IF results = Unbound
       THEN /\ Raise("UnboundLocalError")
            /\ UNCHANGED results
       ELSE /\ results' = [results EXCEPT !.Error = "TikTok session ID is not set"]
            /\ wpc' = "returned"
            /\ UNCHANGED exception
    /\ UNCHANGED <<session_id, video_length, step, storyboard,
                   image_gen_result, total_duration>>
    /\ UNCHANGED <<wvi, wstage>>
    /\ UNCHANGED <<pvars, cvars, svars, rvars, kvars>>

\* SESSION_ID is set: results = {}
WorkflowBegin ==
    /\ wpc = "session_check"
    /\ session_id
    /\ results' = EmptyResults
    /\ wpc' = "agents"
    /\ UNCHANGED <<session_id, video_length, step, storyboard,
                   image_gen_result, total_duration, exception>>
    /\ UNCHANGED <<wvi, wstage>>
    /\ UNCHANGED <<pvars, cvars, svars, rvars, kvars>>

\* one of the steps 1 to 6 returns
AgentSucceeds ==
    /\ wpc = "agents"
    /\ step <= AGENT_STEPS
    /\ step' = step + 1
    /\ wpc' = IF step = AGENT_STEPS THEN "storyboard" ELSE "agents"
    /\ UNCHANGED <<session_id, video_length, results, storyboard,
                   image_gen_result, total_duration, exception>>
    /\ UNCHANGED <<wvi, wstage>>
    /\ UNCHANGED <<pvars, cvars, svars, rvars, kvars>>

\* one of the steps 1 to 6 raises: the except clause returns the results
AgentFails ==
    /\ wpc = "agents"
    /\ step <= AGENT_STEPS
    /\ results' = [results EXCEPT !.Error = "agent failed"]
    /\ wpc' = "returned"
    /\ UNCHANGED <<session_id, video_length, step, storyboard,
                   image_gen_result, total_duration, exception>>
    /\ UNCHANGED <<wvi, wstage>>
    /\ UNCHANGED <<pvars, cvars, svars, rvars, kvars>>

\* step 7 returns the scenes parse_scenes found, possibly none
StoryboardReturns ==
    /\ wpc = "storyboard"
    /\ \E n \in 0..MaxStoryboard :
          storyboard' \in [1..n -> {NewScene(text) :
                                      text \in StoryboardNarrations}]
    /\ wpc' = "images"
    /\ UNCHANGED <<session_id, video_length, step, results,
                   image_gen_result, total_duration, exception>>
    /\ UNCHANGED <<wvi, wstage>>
    /\ UNCHANGED <<pvars, cvars, svars, rvars, kvars>>

\* step 7 raises: the call is in no try block
StoryboardRaises ==
    /\ wpc = "storyboard"
    /\ Raise("Exception")
    /\ UNCHANGED <<session_id, video_length, step, results, storyboard,
                   image_gen_result, total_duration>>
    /\ UNCHANGED <<wvi, wstage>>
    /\ UNCHANGED <<pvars, cvars, svars, rvars, kvars>>

\* step 8: ImageGenerationAgent.execute returns one entry per scene, None
\* for a scene whose image request raised
ImagesGenerated ==
    /\ wpc = "images"
    /\ image_gen_result' \in [1..Len(storyboard) -> BOOLEAN]
    /\ wpc' = "durations"
    /\ UNCHANGED <<session_id, video_length, step, results, storyboard,
                   total_duration, exception>>
    /\ UNCHANGED <<wvi, wstage>>
    /\ UNCHANGED <<pvars, cvars, svars, rvars, kvars>>

\* the loop over zip(storyboard_gen_result, image_gen_result)
UpdateStoryboard ==
    /\ wpc = "durations"
    /\ storyboard' = [i \in 1..Len(storyboard) |->
                        IF image_gen_result[i]
                        THEN [storyboard[i] EXCEPT !.image_path = TRUE,
                                                  !.duration = SceneDuration]
                        ELSE storyboard[i]]
    /\ total_duration' =
          Sum([i \in 1..Len(storyboard) |->
                 IF image_gen_result[i] THEN SceneDuration ELSE 0])
    /\ wpc' = "adjust"
    /\ UNCHANGED <<session_id, video_length, step, results,
                   image_gen_result, exception>>
    /\ UNCHANGED <<wvi, wstage>>
    /\ UNCHANGED <<pvars, cvars, svars, rvars, kvars>>

\* the scenes that have no 'duration' key
WithoutDuration == {i \in 1..Len(storyboard) : storyboard[i].duration = Absent}

\* the first scene the loop cannot read the 'duration' of, 0 when none
FirstWithoutDuration ==
    IF WithoutDuration = {} THEN 0
    ELSE CHOOSE i \in WithoutDuration : \A j \in WithoutDuration : i <= j

\* scene['adjusted_duration'] = scene['duration'] * duration_factor for the
\* scenes before scene 'stop' (all of them when stop = 0)
Adjusted(stop) ==
    [i \in 1..Len(storyboard) |->
       IF stop = 0 \/ i < stop
       THEN [storyboard[i] EXCEPT !.adjusted_duration =
               Frac(storyboard[i].duration * video_length * TICKS_PER_SECOND,
                    total_duration)]
       ELSE storyboard[i]]

\* duration_factor = target_duration / total_duration and the loop that
\* scales every scene of the storyboard
AdjustDurations ==
    /\ wpc = "adjust"
    /\ IF total_duration = 0
       THEN /\ Raise("ZeroDivisionError")
            /\ UNCHANGED storyboard
       ELSE IF FirstWithoutDuration # 0
       THEN /\ Raise("KeyError")
            /\ storyboard' = Adjusted(FirstWithoutDuration)
       ELSE /\ storyboard' = Adjusted(0)
            /\ wpc' = "filter"
            /\ UNCHANGED exception
    /\ UNCHANGED <<session_id, video_length, step, results,
                   image_gen_result, total_duration>>
    /\ UNCHANGED <<wvi, wstage>>
    /\ UNCHANGED <<pvars, cvars, svars, rvars, kvars>>

\* valid_scenes = [scene for scene in ... if 'image_path' in scene]
ValidScenes == SelectSeq(storyboard, LAMBDA scene : scene.image_path)

\* the filter and the check of its result
FilterScenes ==
    /\ wpc = "filter"
    /\ IF ValidScenes = <<>>
       THEN /\ Raise("No valid scenes with images remaining")
            /\ UNCHANGED storyboard
       ELSE /\ storyboard' = ValidScenes
            /\ wpc' = "voiceover"
            /\ UNCHANGED exception
    /\ UNCHANGED <<session_id, video_length, step, results,
                   image_gen_result, total_duration>>
    /\ UNCHANGED <<wvi, wstage>>
    /\ UNCHANGED <<pvars, cvars, svars, rvars, kvars>>

\* generate_voiceover is running: the workflow called it, or
\* compile_youtube_short did
InVoiceover == wpc = "voiceover" \/ (wpc = "compile" /\ wstage = "voice")

\* the scenes generate_voiceover makes a segment of
Narrated == {i \in 1..Len(storyboard) : ~IsSilent(storyboard[i].narration_text)}

\* generate_voiceover returned False.  The workflow raises; in
\* compile_youtube_short the exception is caught, None is returned and the
\* workflow returns its results
VoiceoverReturnsFalse ==
    IF wpc = "voiceover"
    THEN /\ Raise("Failed to generate voiceover")
         /\ UNCHANGED <<results, wstage>>
    ELSE /\ results' = [results EXCEPT !.OutputVideoPath = "None"]
         /\ wpc' = "returned"
         /\ wstage' = "none"
         /\ UNCHANGED exception

\* the loop passes over a scene without narration
WorkflowVoiceSkip ==
    /\ InVoiceover
    /\ wvi <= Len(storyboard)
    /\ wvi \notin Narrated
    /\ wvi' = wvi + 1
    /\ UNCHANGED <<session_id, video_length, wpc, step, results, storyboard,
                   image_gen_result, total_duration, exception, wstage>>
    /\ UNCHANGED <<pvars, cvars, svars, rvars, kvars>>

\* tts returned and wrote the file of the scene:
\* scene['audio_duration'] = duration
WorkflowVoiceover ==
    /\ InVoiceover
    /\ wvi <= Len(storyboard)
    /\ wvi \in Narrated
    /\ \E duration \in SegmentLengths :
          storyboard' = [storyboard EXCEPT ![wvi].audio_duration = duration]
    /\ wvi' = wvi + 1
    /\ UNCHANGED <<session_id, video_length, wpc, step, results,
                   image_gen_result, total_duration, exception, wstage>>
    /\ UNCHANGED <<pvars, cvars, svars, rvars, kvars>>

\* tts wrote no file, or tts or the decoder raised: the scenes before this
\* one keep the 'audio_duration' written for them
WorkflowVoiceoverFails ==
    /\ InVoiceover
    /\ wvi <= Len(storyboard)
    /\ wvi \in Narrated
    /\ VoiceoverReturnsFalse
    /\ UNCHANGED <<session_id, video_length, step, storyboard,
                   image_gen_result, total_duration, wvi>>
    /\ UNCHANGED <<pvars, cvars, svars, rvars, kvars>>

\* after the loop: if not audio_segments: return False
WorkflowNoSegments ==
    /\ InVoiceover
    /\ wvi > Len(storyboard)
    /\ Narrated = {}
    /\ VoiceoverReturnsFalse
    /\ UNCHANGED <<session_id, video_length, step, storyboard,
                   image_gen_result, total_duration, wvi>>
    /\ UNCHANGED <<pvars, cvars, svars, rvars, kvars>>

\* after the loop: combined_audio.export raised
WorkflowExportFails ==
    /\ InVoiceover
    /\ wvi > Len(storyboard)
    /\ Narrated # {}
    /\ VoiceoverReturnsFalse
    /\ UNCHANGED <<session_id, video_length, step, storyboard,
                   image_gen_result, total_duration, wvi>>
    /\ UNCHANGED <<pvars, cvars, svars, rvars, kvars>>

\* after the loop: combined_audio.export returned and generate_voiceover
\* returns True.  The workflow calls compile_youtube_short, which calls
\* generate_voiceover on the same scene dicts; compile_youtube_short goes on
\* to generate_subtitles
WorkflowExported ==
    /\ InVoiceover
    /\ wvi > Len(storyboard)
    /\ Narrated # {}
    /\ IF wpc = "voiceover"
       THEN /\ wpc' = "compile"
            /\ wstage' = "voice"
            /\ wvi' = 1
       ELSE /\ wstage' = "subtitles"
            /\ UNCHANGED <<wpc, wvi>>
    /\ UNCHANGED <<session_id, video_length, step, results, storyboard,
                   image_gen_result, total_duration, exception>>
    /\ UNCHANGED <<pvars, cvars, svars, rvars, kvars>>

\* the reconciliation of compile_youtube_short on the scene dicts it is
\* given: 'adjusted_duration' of every scene is written anew
CompileReconciled ==
    LET n == Len(storyboard)
        original(i) == Get(storyboard[i].audio_duration,
                           DEFAULT_SCENE_DURATION * TICKS_PER_SECOND)
        audio_total == Sum([i \in 1..n |-> Get(storyboard[i].audio_duration, 0)])
        video_total == Sum([i \in 1..n |-> original(i)])
    IN [i \in 1..n |->
          [storyboard[i] EXCEPT !.adjusted_duration =
              IF Abs(video_total - audio_total) > TOLERANCE
              THEN Scaled(original(i), Frac(audio_total, video_total))
              ELSE Frac(original(i), 1)]]

\* generate_subtitles returned False (the alignment request failed):
\* compile_youtube_short returns None before its reconciliation
WorkflowCompileAborts ==
    /\ wpc = "compile"
    /\ wstage = "subtitles"
    /\ results' = [results EXCEPT !.OutputVideoPath = "None"]
    /\ wpc' = "returned"
    /\ wstage' = "none"
    /\ UNCHANGED <<session_id, video_length, step, storyboard,
                   image_gen_result, total_duration, exception, wvi>>
    /\ UNCHANGED <<pvars, cvars, svars, rvars, kvars>>

\* generate_subtitles returned True: the reconciliation rewrites
\* 'adjusted_duration' of the scene dicts, and the scene loop starts the
\* encoder for the first clip
WorkflowReconcile ==
    /\ wpc = "compile"
    /\ wstage = "subtitles"
    /\ storyboard' = CompileReconciled
    /\ wstage' = "encode"
    /\ UNCHANGED <<session_id, video_length, wpc, step, results,
                   image_gen_result, total_duration, exception, wvi>>
    /\ UNCHANGED <<pvars, cvars, svars, rvars, kvars>>

\* the encoder calls of the scene loop and of the final encode are over:
\* compile_youtube_short returns output_path or None; return results
WorkflowCompile ==
    /\ wpc = "compile"
    /\ wstage = "encode"
    /\ \E output_path \in {"output_path", "None"} :
          results' = [results EXCEPT !.OutputVideoPath = output_path]
    /\ wpc' = "returned"
    /\ wstage' = "none"
    /\ UNCHANGED <<session_id, video_length, step, storyboard,
                   image_gen_result, total_duration, exception, wvi>>
    /\ UNCHANGED <<pvars, cvars, svars, rvars, kvars>>

WorkflowNext ==
    \/ WorkflowNoSession
    \/ WorkflowBegin
    \/ AgentSucceeds
    \/ AgentFails
    \/ StoryboardReturns
    \/ StoryboardRaises
    \/ ImagesGenerated
    \/ UpdateStoryboard
    \/ AdjustDurations
    \/ FilterScenes
    \/ WorkflowVoiceSkip
    \/ WorkflowVoiceover
    \/ WorkflowVoiceoverFails
    \/ WorkflowNoSegments
    \/ WorkflowExportFails
    \/ WorkflowExported
    \/ WorkflowCompileAborts
    \/ WorkflowReconcile
    \/ WorkflowCompile

SpecWorkflow == WorkflowInit /\ [][WorkflowNext]_vars

\* C21 (as claimed): the workflow ends by returning, never by an exception,
\* and what it returns carries an Error entry or the path of a video.
C21_PathOrStructuredError ==
    /\ wpc # "raised"
    /\ wpc = "returned" =>
          \/ results.Error # "absent"
          \/ results.OutputVideoPath = "output_path"

\* C26 (as claimed): with the images generated, the workflow goes on with
\* the scenes that have an image, and the only exception between the image
\* step and the voiceover is 'No valid scenes with images remaining', raised
\* exactly when no scene has an image.
C26_ImagelessScenesFiltered ==
    wpc \in {"filter", "voiceover", "raised"} /\ image_gen_result # <<>> =>
        IF \E i \in 1..Len(image_gen_result) : image_gen_result[i]
        THEN exception \notin {"KeyError", "ZeroDivisionError",
                               "No valid scenes with images remaining"}
        ELSE wpc = "raised" =>
               exception = "No valid scenes with images remaining"

---------------------------------------------------------------------------
(* VideoProcessor.calculate_relevance.  A text is the sequence of its      *)
(* words; nlp is the language pipeline, of which the model keeps what the  *)
(* function reads of a token: lemma_, is_stop and is_alpha.  A time string *)
(* is the sequence of its fields between the colons.  The weights 1, 2,    *)
(* 1.5 and 1.5 are counted in halves, and the score is the exact fraction. *)

\* a tag list and a subtitle track have at most MaxItems entries
MaxItems == 2

\* token.lemma_ of a lower-cased word
Lemma(word) ==
    CASE word = "cats" -> "cat"
      [] word = "running" -> "run"
      [] OTHER -> word

\* token.is_stop
IsStop(word) == word \in {"the", "a"}

\* token.is_alpha
IsAlpha(word) == word \notin {"42"}

\* self.nlp(text): one token per word
nlp(text) ==
    [i \in 1..Len(text) |-> [lemma_ |-> Lemma(text[i]),
                             is_stop |-> IsStop(text[i]),
                             is_alpha |-> IsAlpha(text[i])]]

\* set(token.lemma_ for token in doc if not token.is_stop and token.is_alpha)
LemmaSet(doc) ==
    {doc[i].lemma_ : i \in {j \in 1..Len(doc) :
                               ~doc[j].is_stop /\ doc[j].is_alpha}}

\* the lemma set of text.lower()
WordsOf(text) == LemmaSet(nlp(Lower(text)))

\* time_to_seconds: "H:M:S", "M:S" or plain seconds; float(time_str) of a
\* string with more than two colons raises ValueError
time_to_seconds(time_parts) ==
    IF Len(time_parts) = 3
    THEN time_parts[1] * 3600 + time_parts[2] * 60 + time_parts[3]
    ELSE IF Len(time_parts) = 2
    THEN time_parts[1] * 60 + time_parts[2]
    ELSE IF Len(time_parts) = 1
    THEN time_parts[1]
    ELSE ValueError

\* time_to_seconds raises for the start or the end of an item of the track
TimesRaise(content) ==
    \E i \in 1..Len(content) :
        \/ time_to_seconds(content[i].start) = ValueError
        \/ time_to_seconds(content[i].end) = ValueError

RECURSIVE ExtractedText(_, _, _)
\* the loop of extract_timed_content over items whose times parse
ExtractedText(content, start_time, end_time) ==
    IF content = <<>> THEN <<>>
    ELSE LET item == Head(content)
             rest == ExtractedText(Tail(content), start_time, end_time)
         IN IF /\ start_time <= time_to_seconds(item.end)
               /\ end_time >= time_to_seconds(item.start)
            THEN item.text \o rest
            ELSE rest

\* the texts of the items that overlap [start_time, end_time], joined; the
\* loop reads the times of every item, so one that does not parse raises
extract_timed_content(content, start_time, end_time) ==
    IF TimesRaise(content) THEN ValueError
    ELSE ExtractedText(content, start_time, end_time)

\* get_synced_content: the 5-second window that starts at the timestamp
WINDOW_SECONDS == 5

get_synced_content(v, ts) ==
    [subtitle_text |-> extract_timed_content(v.subtitles, ts,
                                             ts + WINDOW_SECONDS),
     audio_text |-> extract_timed_content(v.audio_transcript, ts,
                                          ts + WINDOW_SECONDS)]

\* set(video.get("tags", [])): the tags as they are, not lemmatised
video_keywords(v) == {v.tags[i] : i \in 1..Len(v.tags)}

\* a tag match counted like a title match
TagWeight_as_title == 4

\* the weight of a tag match, in halves
TagWeight == 2

\* the weight of a title match, in halves
TitleWeight == 4

\* the weight of a subtitle or audio-transcript match, in halves
SyncedWeight == 3

\* video.get("title", ""): NoTitle stands for None, Title(text) for a string
NoTitle == <<>>

Title(text) == <<text>>

\* the exception calculate_relevance raises for the asset, "" when none:
\* ValueError from get_synced_content, else UnboundLocalError when the title
\* is None and title_words was never assigned
RelevanceRaises(v) ==
    IF TimesRaise(v.subtitles) \/ TimesRaise(v.audio_transcript)
    THEN "ValueError"
    ELSE IF v.title = NoTitle THEN "UnboundLocalError"
    ELSE ""

\* the value calculate_relevance returns when it raises nothing
calculate_relevance(v, desc, ts) ==
    LET description_words == WordsOf(desc)
        title_words == WordsOf(v.title[1])
        synced == get_synced_content(v, ts)
        subtitle_words == WordsOf(synced.subtitle_text)
        audio_words == WordsOf(synced.audio_text)
        rel == TagWeight * Cardinality(video_keywords(v) \cap description_words)
               + TitleWeight * Cardinality(title_words \cap description_words)
               + SyncedWeight
                   * Cardinality(subtitle_words \cap description_words)
               + SyncedWeight * Cardinality(audio_words \cap description_words)
        max_possible_relevance ==
               TagWeight * Cardinality(video_keywords(v))
               + TitleWeight * Cardinality(title_words)
               + SyncedWeight * Cardinality(subtitle_words)
               + SyncedWeight * Cardinality(audio_words)
    IN IF max_possible_relevance > 0
       THEN Frac(rel, max_possible_relevance)
       ELSE Frac(0, 1)

\* the track items of the assets
Item_Early == [start |-> <<0, 0, 2>>, end |-> <<0, 0, 4>>,
               text |-> <<"Cats", "running">>]
Item_Late == [start |-> <<1, 0>>, end |-> <<1, 5>>, text |-> <<"dog">>]
Item_Mid == [start |-> <<7>>, end |-> <<9>>, text |-> <<"a", "dog">>]
Item_Bad == [start |-> <<0, 0, 0, 7>>, end |-> <<9>>, text |-> <<"dog">>]

\* the items of the subtitle tracks
TrackItems == {Item_Early, Item_Mid}

Tags == {"cat", "Cats"}

Titles == {NoTitle, Title(<<>>), Title(<<"The", "cats">>),
           Title(<<"dog", "42">>)}

AudioTracks == {<<>>, <<Item_Mid>>, <<Item_Early, Item_Late>>, <<Item_Bad>>}

Descriptions == {<<"cats", "run">>, <<"the", "dog">>, <<"Running", "42">>}

Timestamps == {0, 5}

\* the sequences with the elements of s in another order
Scrambled(s) ==
    {[i \in 1..Len(s) |-> s[p[i]]] : p \in Permutations(1..Len(s))}

RelevanceInit ==
    /\ ParseIdle
    /\ CompileIdle
    /\ SrtIdle
    /\ WorkflowIdle
    /\ ConcurrentIdle
    /\ \E n, m \in 0..MaxItems :
          video_asset \in [tags : [1..n -> Tags],
                           title : Titles,
                           subtitles : [1..m -> TrackItems],
                           audio_transcript : AudioTracks]
    /\ description \in Descriptions
    /\ timestamp \in Timestamps
    /\ relevance = Frac(0, 1)
    /\ rpc = "call"

\* one call of calculate_relevance: a time of a track that does not parse
\* raises in get_synced_content; with title None the name title_words is
\* not bound when the normaliser reads it
RelevanceCall ==
    /\ rpc = "call"
    /\ IF RelevanceRaises(video_asset) # ""
       THEN /\ rpc' = RelevanceRaises(video_asset)
            /\ UNCHANGED relevance
       ELSE /\ rpc' = "done"
            /\ relevance' = calculate_relevance(video_asset, description,
                                                timestamp)
    /\ UNCHANGED <<video_asset, description, timestamp>>
    /\ UNCHANGED <<pvars, cvars, svars, wvars, kvars>>

\* the call repeated on the asset with its tags, its title words and its
\* track items in another order
RelevanceScrambled ==
    /\ rpc = "done"
    /\ \/ \E tags \in Scrambled(video_asset.tags) :
             video_asset' = [video_asset EXCEPT !.tags = tags]
       \/ \E text \in Scrambled(video_asset.title[1]) :
             video_asset' = [video_asset EXCEPT !.title = Title(text)]
       \/ \E subtitles \in Scrambled(video_asset.subtitles) :
             video_asset' = [video_asset EXCEPT !.subtitles = subtitles]
       \/ \E audio_transcript \in Scrambled(video_asset.audio_transcript) :
             video_asset' =
                [video_asset EXCEPT !.audio_transcript = audio_transcript]
    /\ video_asset' # video_asset
    /\ relevance' = calculate_relevance(video_asset', description, timestamp)
    /\ UNCHANGED <<description, timestamp, rpc>>
    /\ UNCHANGED <<pvars, cvars, svars, wvars, kvars>>

RelevanceNext ==
    \/ RelevanceCall
    \/ RelevanceScrambled

SpecRelevance == RelevanceInit /\ [][RelevanceNext]_vars

\* the lemmas of the asset the score counts: the tags, the title and the
\* two synced tracks
AssetWords ==
    video_keywords(video_asset)
    \cup WordsOf(video_asset.title[1])
    \cup WordsOf(get_synced_content(video_asset, timestamp).subtitle_text)
    \cup WordsOf(get_synced_content(video_asset, timestamp).audio_text)

\* the overlap with the description, weighted: tags x1, title x2, synced
\* subtitles x1.5, synced audio transcript x1.5, counted in halves
WeightedOverlap(D) ==
    LET synced == get_synced_content(video_asset, timestamp)
    IN 2 * Cardinality(video_keywords(video_asset) \cap D)
       + 4 * Cardinality(WordsOf(video_asset.title[1]) \cap D)
       + 3 * Cardinality(WordsOf(synced.subtitle_text) \cap D)
       + 3 * Cardinality(WordsOf(synced.audio_text) \cap D)

\* the largest weighted overlap a description can have with the asset
MaxOverlap == WeightedOverlap(AssetWords)

\* C22: a score calculate_relevance returns is the weighted overlap divided
\* by the maximum achievable weighted overlap (0 when that maximum is 0), is
\* within [0, 1], is 0 when the description shares no lemma with the asset,
\* and is the same when the tags, the title words or the track items are
\* given in another order.
C22_RelevanceIsSetMeasure ==
    /\ [](rpc = "done" =>
            /\ relevance =
                  IF MaxOverlap > 0
                  THEN Frac(WeightedOverlap(WordsOf(description)), MaxOverlap)
                  ELSE Frac(0, 1)
            /\ 0 <= relevance.num
            /\ relevance.num <= relevance.den
            /\ relevance.den > 0
            /\ (AssetWords \cap WordsOf(description) = {}
                   => relevance.num = 0))
    /\ [][rpc = "done" /\ rpc' = "done" => relevance' = relevance]_vars

\* a score strictly between 0 and 1 of an asset with two different tags and
\* two track items, returned again after a scramble
C22_Witness ==
    /\ rpc = "done"
    /\ relevance.num > 0
    /\ relevance.num < relevance.den
    /\ Len(video_asset.tags) = 2
    /\ video_asset.tags[1] = "Cats"
    /\ video_asset.tags[2] = "cat"
    /\ video_asset.subtitles = <<Item_Mid, Item_Early>>
    /\ video_asset.title = Title(<<"cats", "The">>)

---------------------------------------------------------------------------
(* Two runs of compile_youtube_short in one working directory of the       *)
(* process.  Each run makes its own directory with mkdtemp and writes its  *)
(* clips, concat.txt and subtitles.srt there; the voiceover and the        *)
(* subtitles stage work in directories of their own (mkdtemp again) and    *)
(* the combined audio goes to the audio_file the caller names.             *)
(* output_path is os.getcwd()/youtube_short.mp4 in every run.  The final   *)
(* encode opens output_path for writing (ffmpeg -y) and writes until it    *)
(* exits.                                                                  *)

\* the runs
NUM_RUNS == 2

Runs == 1..NUM_RUNS

\* youtube_short.mp4 written by two encoders at once
MIXED == NUM_RUNS + 1

ConcurrentInit ==
    /\ ParseIdle
    /\ CompileIdle
    /\ SrtIdle
    /\ WorkflowIdle
    /\ RelevanceIdle
    /\ run_scenes \in [Runs -> 0..MaxScenes]
    /\ run_pc = [r \in Runs |-> "start"]
    /\ run_dir = [r \in Runs |-> 0]
    /\ run_result = [r \in Runs |-> [value |-> "pending", video_of |-> 0]]
    /\ directories = {}
    /\ made = 0
    /\ output_file = 0

\* if not scenes: return None, before a directory is made and outside the
\* try block
RunNoScenes(r) ==
    /\ run_pc[r] = "start"
    /\ run_scenes[r] = 0
    /\ run_result' = [run_result EXCEPT
                        ![r] = [value |-> "None", video_of |-> 0]]
    /\ run_pc' = [run_pc EXCEPT ![r] = "done"]
    /\ UNCHANGED <<run_dir, directories, made, output_file>>
    /\ UNCHANGED run_scenes
    /\ UNCHANGED <<pvars, cvars, svars, wvars, rvars>>

\* temp_dir = tempfile.mkdtemp(): a directory no earlier call returned
RunMakesDirectory(r) ==
    /\ run_pc[r] = "start"
    /\ run_scenes[r] > 0
    /\ made' = made + 1
    /\ run_dir' = [run_dir EXCEPT ![r] = made + 1]
    /\ directories' = directories \cup {made + 1}
    /\ run_pc' = [run_pc EXCEPT ![r] = "resolve"]
    /\ UNCHANGED <<run_result, output_file>>
    /\ UNCHANGED run_scenes
    /\ UNCHANGED <<pvars, cvars, svars, wvars, rvars>>

\* a stage before the encode fails (the voiceover, the subtitles, the
\* reconciliation or the manifest): the handler returns None and the
\* encoder is not started
RunStageFails(r) ==
    /\ run_pc[r] = "resolve"
    /\ run_result' = [run_result EXCEPT
                        ![r] = [value |-> "None", video_of |-> 0]]
    /\ run_pc' = [run_pc EXCEPT ![r] = "cleanup"]
    /\ UNCHANGED <<run_dir, directories, made, output_file>>
    /\ UNCHANGED run_scenes
    /\ UNCHANGED <<pvars, cvars, svars, wvars, rvars>>

\* the stages up to the manifest succeed: the clips, subtitles.srt and
\* concat.txt of the run are in its temp_dir
RunWritesClips(r) ==
    /\ run_pc[r] = "resolve"
    /\ run_dir[r] \in directories
    /\ run_pc' = [run_pc EXCEPT ![r] = "encode"]
    /\ UNCHANGED <<run_dir, run_result, directories, made, output_file>>
    /\ UNCHANGED run_scenes
    /\ UNCHANGED <<pvars, cvars, svars, wvars, rvars>>

\* the encoder of the run opens output_path and starts to write
RunEncodeStarts(r) ==
    /\ run_pc[r] = "encode"
    /\ output_file' = IF \E o \in Runs \ {r} : run_pc[o] = "encoding"
                      THEN MIXED
                      ELSE r
    /\ run_pc' = [run_pc EXCEPT ![r] = "encoding"]
    /\ UNCHANGED <<run_dir, run_result, directories, made>>
    /\ UNCHANGED run_scenes
    /\ UNCHANGED <<pvars, cvars, svars, wvars, rvars>>

\* the encoder exits with status 0; os.path.exists(output_path) is true (no
\* run removes the file an encoder opened) and the run returns output_path
RunEncodeExits(r) ==
    /\ run_pc[r] = "encoding"
    /\ run_result' = [run_result EXCEPT
                        ![r] = [value |-> "output_path",
                                video_of |-> output_file]]
    /\ run_pc' = [run_pc EXCEPT ![r] = "cleanup"]
    /\ UNCHANGED <<run_dir, directories, made, output_file>>
    /\ UNCHANGED run_scenes
    /\ UNCHANGED <<pvars, cvars, svars, wvars, rvars>>

\* the encoder exits with another status: the run returns None
RunEncodeFails(r) ==
    /\ run_pc[r] = "encoding"
    /\ run_result' = [run_result EXCEPT
                        ![r] = [value |-> "None", video_of |-> 0]]
    /\ run_pc' = [run_pc EXCEPT ![r] = "cleanup"]
    /\ UNCHANGED <<run_dir, directories, made, output_file>>
    /\ UNCHANGED run_scenes
    /\ UNCHANGED <<pvars, cvars, svars, wvars, rvars>>

\* the finally block: shutil.rmtree(temp_dir) removes the directory of the
\* run, or raises and leaves it
RunCleanup(r) ==
    /\ run_pc[r] = "cleanup"
    /\ \E outcome \in RmtreeOutcomes :
          directories' = IF outcome = "removed"
                         THEN directories \ {run_dir[r]}
                         ELSE directories
    /\ run_pc' = [run_pc EXCEPT ![r] = "done"]
    /\ UNCHANGED <<run_dir, run_result, made, output_file>>
    /\ UNCHANGED run_scenes
    /\ UNCHANGED <<pvars, cvars, svars, wvars, rvars>>

ConcurrentNext ==
    \/ \E r \in Runs : RunNoScenes(r)
    \/ \E r \in Runs : RunMakesDirectory(r)
    \/ \E r \in Runs : RunStageFails(r)
    \/ \E r \in Runs : RunWritesClips(r)
    \/ \E r \in Runs : RunEncodeStarts(r)
    \/ \E r \in Runs : RunEncodeExits(r)
    \/ \E r \in Runs : RunEncodeFails(r)
    \/ \E r \in Runs : RunCleanup(r)

SpecConcurrent == ConcurrentInit /\ [][ConcurrentNext]_vars

\* C24 (as claimed): the working directories of two runs differ and a run
\* removes its own only, and the video at the path a run returned is the
\* video that run encoded, whatever the other run does.
C24_RunsShareNothing ==
    /\ \A r, o \in Runs :
          r # o /\ run_dir[r] # 0 => run_dir[r] # run_dir[o]
    /\ \A r \in Runs :
          run_pc[r] \in {"resolve", "encode", "encoding", "cleanup"}
             => run_dir[r] \in directories
    /\ \A r \in Runs :
          run_result[r].value = "output_path" =>
             /\ run_result[r].video_of = r
             /\ output_file = r

=============================================================================
